---- MODULE Spec2Model ----
(***************************************************************************)
(* Ultimate Tic-Tac-Toe (Morpion Ultime): the rules engine of game.py.     *)
(* A PetitPlateau is a record [plateau, vainqueur, jeu_termine]; a         *)
(* MorpionUltime is a record [plateaux, joueur_courant, plateau_actif,     *)
(* jeu_termine, vainqueur].  Methods are operators from an object value    *)
(* to the object value after the call (and the value returned).            *)
(***************************************************************************)
EXTENDS Integers, Sequences, FiniteSets, TLC

\* ------------------------------------------------------------------ values
\* Python's None, for the fields vainqueur (PetitPlateau and MorpionUltime).
None == "None"
\* Python's None, for the field plateau_actif (otherwise a pair (r, c)).
AucunPlateau == << >>

R3 == 0 .. 2
Joueurs == {"X", "O"}

autre(joueur) == IF joueur = "X" THEN "O" ELSE "X"

\* Soit(v, F) is F(x) for x the value of v: an intermediate result of the
\* code (a local variable, a value returned) is computed once and named.
Soit(v, F(_)) == CHOOSE y \in {F(x) : x \in {v}} : TRUE

\* ------------------------------------------------------------ PetitPlateau
PetitPlateau_reinitialiser ==
    [ plateau     |-> [i \in R3 |-> [j \in R3 |-> " "]],
      vainqueur   |-> None,
      jeu_termine |-> FALSE ]

\* Variant: the cell's content is not tested (an occupied cell is playable).
PetitPlateau_coup_valide_sans_case_vide(p, ligne, colonne) ==
    /\ 0 <= ligne /\ ligne < 3
    /\ 0 <= colonne /\ colonne < 3
    /\ ~p.jeu_termine

\* Variant: jeu_termine is not tested (a finished sub-board is playable).
PetitPlateau_coup_valide_sans_jeu_termine(p, ligne, colonne) ==
    /\ 0 <= ligne /\ ligne < 3
    /\ 0 <= colonne /\ colonne < 3
    /\ p.plateau[ligne][colonne] = " "

PetitPlateau_coup_valide(p, ligne, colonne) ==
    /\ 0 <= ligne /\ ligne < 3
    /\ 0 <= colonne /\ colonne < 3
    /\ p.plateau[ligne][colonne] = " "
    /\ ~p.jeu_termine

est_nul(p) == \A i \in R3 : \A j \in R3 : p.plateau[i][j] # " "

\* Variant: the two diagonals are not tested.
PetitPlateau_verifier_etat_sans_diagonales(p, joueur) ==
    IF \E i \in R3 : \/ \A j \in R3 : p.plateau[i][j] = joueur
                     \/ \A j \in R3 : p.plateau[j][i] = joueur
    THEN [p EXCEPT !.vainqueur = joueur, !.jeu_termine = TRUE]
    ELSE IF est_nul(p)
    THEN [p EXCEPT !.vainqueur = "DRAW", !.jeu_termine = TRUE]
    ELSE p

PetitPlateau_verifier_etat(p, joueur) ==
    IF \E i \in R3 : \/ \A j \in R3 : p.plateau[i][j] = joueur
                     \/ \A j \in R3 : p.plateau[j][i] = joueur
    THEN [p EXCEPT !.vainqueur = joueur, !.jeu_termine = TRUE]
    ELSE IF \/ /\ p.plateau[0][0] = p.plateau[1][1]
               /\ p.plateau[1][1] = p.plateau[2][2]
               /\ p.plateau[2][2] = joueur
            \/ /\ p.plateau[0][2] = p.plateau[1][1]
               /\ p.plateau[1][1] = p.plateau[2][0]
               /\ p.plateau[2][0] = joueur
    THEN [p EXCEPT !.vainqueur = joueur, !.jeu_termine = TRUE]
    ELSE IF est_nul(p)
    THEN [p EXCEPT !.vainqueur = "DRAW", !.jeu_termine = TRUE]
    ELSE p

\* The sub-board after the call, and the value returned.
PetitPlateau_jouer_coup(p, ligne, colonne, joueur) ==
    IF PetitPlateau_coup_valide(p, ligne, colonne)
    THEN [ p   |-> PetitPlateau_verifier_etat(
                      [p EXCEPT !.plateau[ligne][colonne] = joueur], joueur),
           ret |-> TRUE ]
    ELSE [ p |-> p, ret |-> FALSE ]

PetitPlateau_obtenir_vainqueur(p) == p.vainqueur

\* ----------------------------------------------------------- MorpionUltime
\* Variant: O is the first player to move.
MorpionUltime_reinitialiser_O_commence ==
    [ plateaux       |-> [i \in R3 |-> [j \in R3 |-> PetitPlateau_reinitialiser]],
      joueur_courant |-> "O",
      plateau_actif  |-> AucunPlateau,
      jeu_termine    |-> FALSE,
      vainqueur      |-> None ]

MorpionUltime_reinitialiser ==
    [ plateaux       |-> [i \in R3 |-> [j \in R3 |-> PetitPlateau_reinitialiser]],
      joueur_courant |-> "X",
      plateau_actif  |-> AucunPlateau,
      jeu_termine    |-> FALSE,
      vainqueur      |-> None ]

\* Variant: the imposed sub-board (plateau_actif) is not tested.
MorpionUltime_coup_valide_sans_plateau_actif(g, sp_l, sp_c, cel_l, cel_c) ==
    IF ~(0 <= sp_l /\ sp_l < 3 /\ 0 <= sp_c /\ sp_c < 3) THEN FALSE
    ELSE IF g.plateaux[sp_l][sp_c].jeu_termine THEN FALSE
    ELSE PetitPlateau_coup_valide(g.plateaux[sp_l][sp_c], cel_l, cel_c)

MorpionUltime_coup_valide(g, sp_l, sp_c, cel_l, cel_c) ==
    IF ~(0 <= sp_l /\ sp_l < 3 /\ 0 <= sp_c /\ sp_c < 3) THEN FALSE
    ELSE IF g.plateaux[sp_l][sp_c].jeu_termine THEN FALSE
    ELSE IF g.plateau_actif # AucunPlateau /\ <<sp_l, sp_c>> # g.plateau_actif
    THEN FALSE
    ELSE PetitPlateau_coup_valide(g.plateaux[sp_l][sp_c], cel_l, cel_c)

\* Variant: a drawn sub-board is written as an empty cell of the virtual grid.
global_p_nul_vide(g) ==
    [i \in R3 |-> [j \in R3 |->
        LET vainq == PetitPlateau_obtenir_vainqueur(g.plateaux[i][j])
        IN  IF vainq # None /\ vainq # "DRAW" THEN vainq ELSE " "]]

\* The virtual 3x3 grid of the sub-boards' winners ("X", "O", "DRAW" or " ").
global_p(g) ==
    [i \in R3 |-> [j \in R3 |->
        LET vainq == PetitPlateau_obtenir_vainqueur(g.plateaux[i][j])
        IN  IF vainq # None THEN vainq ELSE " "]]

combinaisons ==
    << <<<<0,0>>, <<0,1>>, <<0,2>>>>, <<<<1,0>>, <<1,1>>, <<1,2>>>>,
       <<<<2,0>>, <<2,1>>, <<2,2>>>>, <<<<0,0>>, <<1,0>>, <<2,0>>>>,
       <<<<0,1>>, <<1,1>>, <<2,1>>>>, <<<<0,2>>, <<1,2>>, <<2,2>>>>,
       <<<<0,0>>, <<1,1>>, <<2,2>>>>, <<<<0,2>>, <<1,1>>, <<2,0>>>> >>

\* Variant: any(any(...)) for any(all(...)).
peut_encore_gagner_une_case(gp, joueur) ==
    \E k \in DOMAIN combinaisons :
        \E n \in 1 .. 3 :
            gp[combinaisons[k][n][1]][combinaisons[k][n][2]] \in {joueur, " "}

peut_encore_gagner(gp, joueur) ==
    \E k \in DOMAIN combinaisons :
        \A n \in 1 .. 3 :
            gp[combinaisons[k][n][1]][combinaisons[k][n][2]] \in {joueur, " "}

\* The lines of the virtual grid in the order the code tests them: row 0,
\* column 0, row 1, column 1, row 2, column 2, main diagonal, anti-diagonal.
\* Each is given by its first cell (the symbol returned) and its three cells.
lignes_globales ==
    << <<<<0,0>>, <<0,1>>, <<0,2>>>>, <<<<0,0>>, <<1,0>>, <<2,0>>>>,
       <<<<1,0>>, <<1,1>>, <<1,2>>>>, <<<<0,1>>, <<1,1>>, <<2,1>>>>,
       <<<<2,0>>, <<2,1>>, <<2,2>>>>, <<<<0,2>>, <<1,2>>, <<2,2>>>>,
       <<<<0,0>>, <<1,1>>, <<2,2>>>>, <<<<0,2>>, <<1,1>>, <<2,0>>>> >>

\* Variant: the test "# DRAW" of the line's first cell is missing.
ligne_complete_sans_test_nul(gp, l) ==
    LET premier == gp[l[1][1]][l[1][2]]
    IN  /\ premier # " "
        /\ \A n \in 1 .. 3 : gp[l[n][1]][l[n][2]] = premier

ligne_complete(gp, l) ==
    LET premier == gp[l[1][1]][l[1][2]]
    IN  /\ premier # " "
        /\ premier # "DRAW"
        /\ \A n \in 1 .. 3 : gp[l[n][1]][l[n][2]] = premier

\* Variant: the exhaustion test (all nine sub-boards finished) comes before
\* the test of the lines.
mettre_a_jour_etat_global_epuisement_d_abord(g) ==
    LET gp == global_p(g)
        gagnees == {k \in DOMAIN lignes_globales :
                        ligne_complete(gp, lignes_globales[k])}
    IN  IF \A i \in R3 : \A j \in R3 : g.plateaux[i][j].jeu_termine
        THEN [g EXCEPT !.jeu_termine = TRUE, !.vainqueur = None]
        ELSE IF gagnees # {}
        THEN LET k == CHOOSE k \in gagnees : \A k2 \in gagnees : k <= k2
                 l == lignes_globales[k]
             IN  [g EXCEPT !.vainqueur = gp[l[1][1]][l[1][2]],
                           !.jeu_termine = TRUE]
        ELSE IF ~peut_encore_gagner(gp, "X") /\ ~peut_encore_gagner(gp, "O")
        THEN [g EXCEPT !.jeu_termine = TRUE, !.vainqueur = None]
        ELSE g

\* Variant: the anticipated draw (neither symbol can still win) is not tested.
mettre_a_jour_etat_global_sans_nul_anticipe(g) ==
    LET gp == global_p(g)
        gagnees == {k \in DOMAIN lignes_globales :
                        ligne_complete(gp, lignes_globales[k])}
    IN  IF gagnees # {}
        THEN LET k == CHOOSE k \in gagnees : \A k2 \in gagnees : k <= k2
                 l == lignes_globales[k]
             IN  [g EXCEPT !.vainqueur = gp[l[1][1]][l[1][2]],
                           !.jeu_termine = TRUE]
        ELSE IF \A i \in R3 : \A j \in R3 : g.plateaux[i][j].jeu_termine
        THEN [g EXCEPT !.jeu_termine = TRUE, !.vainqueur = None]
        ELSE g

mettre_a_jour_etat_global(g) ==
    LET gp == global_p(g)
        gagnees == {k \in DOMAIN lignes_globales :
                        ligne_complete(gp, lignes_globales[k])}
    IN  IF gagnees # {}
        THEN LET k == CHOOSE k \in gagnees : \A k2 \in gagnees : k <= k2
                 l == lignes_globales[k]
             IN  [g EXCEPT !.vainqueur = gp[l[1][1]][l[1][2]],
                           !.jeu_termine = TRUE]
        ELSE IF \A i \in R3 : \A j \in R3 : g.plateaux[i][j].jeu_termine
        THEN [g EXCEPT !.jeu_termine = TRUE, !.vainqueur = None]
        ELSE IF ~peut_encore_gagner(gp, "X") /\ ~peut_encore_gagner(gp, "O")
        THEN [g EXCEPT !.jeu_termine = TRUE, !.vainqueur = None]
        ELSE g

\* Variant: the next imposed sub-board is the played cell's, finished or not.
prochain_plateau_actif_toujours(g, cel_l, cel_c) == <<cel_l, cel_c>>

\* The next imposed sub-board after a move in cell (cel_l, cel_c).
prochain_plateau_actif(g, cel_l, cel_c) ==
    IF g.plateaux[cel_l][cel_c].jeu_termine THEN AucunPlateau
    ELSE <<cel_l, cel_c>>

\* Variant: a finished game is not tested.
coup_refuse_sans_jeu_termine(g, sp_l, sp_c, cel_l, cel_c) ==
    ~MorpionUltime_coup_valide(g, sp_l, sp_c, cel_l, cel_c)

\* The test that opens jouer_coup: the call returns False at once.
coup_refuse(g, sp_l, sp_c, cel_l, cel_c) ==
    ~MorpionUltime_coup_valide(g, sp_l, sp_c, cel_l, cel_c) \/ g.jeu_termine

\* Variant: the player to move alternates even when the move ends the game.
MorpionUltime_jouer_coup_alterne_toujours(g, sp_l, sp_c, cel_l, cel_c) ==
    IF coup_refuse(g, sp_l, sp_c, cel_l, cel_c)
    THEN [ g |-> g, ret |-> FALSE ]
    ELSE
      Soit(PetitPlateau_jouer_coup(g.plateaux[sp_l][sp_c], cel_l, cel_c,
                                   g.joueur_courant), LAMBDA r :
          IF ~r.ret THEN [ g |-> g, ret |-> FALSE ]
          ELSE
            Soit([g EXCEPT !.plateaux[sp_l][sp_c] = r.p], LAMBDA g1 :
            Soit(mettre_a_jour_etat_global(g1), LAMBDA g2 :
            Soit([g2 EXCEPT !.plateau_actif =
                      prochain_plateau_actif(g2, cel_l, cel_c)], LAMBDA g3 :
                [ g |-> [g3 EXCEPT !.joueur_courant = autre(g3.joueur_courant)],
                  ret |-> TRUE ]))))

\* The board after the call, and the value returned.
MorpionUltime_jouer_coup(g, sp_l, sp_c, cel_l, cel_c) ==
    IF coup_refuse(g, sp_l, sp_c, cel_l, cel_c)
    THEN [ g |-> g, ret |-> FALSE ]
    ELSE
      Soit(PetitPlateau_jouer_coup(g.plateaux[sp_l][sp_c], cel_l, cel_c,
                                   g.joueur_courant), LAMBDA r :
          IF ~r.ret THEN [ g |-> g, ret |-> FALSE ]
          ELSE
            Soit([g EXCEPT !.plateaux[sp_l][sp_c] = r.p], LAMBDA g1 :
            Soit(mettre_a_jour_etat_global(g1), LAMBDA g2 :
            Soit([g2 EXCEPT !.plateau_actif =
                      prochain_plateau_actif(g2, cel_l, cel_c)], LAMBDA g3 :
                [ g |-> IF ~g3.jeu_termine
                        THEN [g3 EXCEPT !.joueur_courant =
                                            autre(g3.joueur_courant)]
                        ELSE g3,
                  ret |-> TRUE ]))))

\* The cells (i, j) of a 3x3 grid in row-major order, as range(3) x range(3).
cellules_3x3 ==
    << <<0,0>>, <<0,1>>, <<0,2>>, <<1,0>>, <<1,1>>, <<1,2>>,
       <<2,0>>, <<2,1>>, <<2,2>> >>

RECURSIVE coups_du_plateau(_, _, _, _)
\* The inner double loop: the valid cells of sub-board (sp_l, sp_c) from the
\* k-th cell on, in order.
coups_du_plateau(g, sp_l, sp_c, k) ==
    IF k > Len(cellules_3x3) THEN << >>
    ELSE LET i == cellules_3x3[k][1]
             j == cellules_3x3[k][2]
             reste == coups_du_plateau(g, sp_l, sp_c, k + 1)
         IN  IF PetitPlateau_coup_valide(g.plateaux[sp_l][sp_c], i, j)
             THEN << <<sp_l, sp_c, i, j>> >> \o reste
             ELSE reste

RECURSIVE coups_tous_plateaux(_, _)
\* The outer double loop over the sub-boards, skipping the finished ones.
coups_tous_plateaux(g, k) ==
    IF k > Len(cellules_3x3) THEN << >>
    ELSE LET sp_l == cellules_3x3[k][1]
             sp_c == cellules_3x3[k][2]
             reste == coups_tous_plateaux(g, k + 1)
         IN  IF g.plateaux[sp_l][sp_c].jeu_termine THEN reste
             ELSE coups_du_plateau(g, sp_l, sp_c, 1) \o reste

\* Variant: plateau_actif is ignored (every unfinished sub-board is listed).
obtenir_coups_valides_sans_plateau_actif(g) == coups_tous_plateaux(g, 1)

obtenir_coups_valides(g) ==
    IF g.plateau_actif # AucunPlateau
    THEN coups_du_plateau(g, g.plateau_actif[1], g.plateau_actif[2], 1)
    ELSE coups_tous_plateaux(g, 1)

\* Variant: a finished game without a winner answers "DRAW".
MorpionUltime_obtenir_vainqueur_nul_distinct(g) ==
    IF g.jeu_termine /\ g.vainqueur = None THEN "DRAW" ELSE g.vainqueur

MorpionUltime_obtenir_vainqueur(g) == g.vainqueur

\* ------------------------------------------------------ ai.py: evaluators
\* ligne.count(s), for a line given as a sequence of cells.
compter(ligne, s) == Cardinality({k \in DOMAIN ligne : ligne[k] = s})
\* s in ligne.
contient(ligne, s) == \E k \in DOMAIN ligne : ligne[k] = s

\* Variant: a line holding both symbols is scored for the player's symbols.
evaluer_ligne_sans_blocage(ligne, joueur) ==
    IF contient(ligne, joueur) THEN 10 ^ compter(ligne, joueur)
    ELSE IF contient(ligne, autre(joueur))
    THEN -(10 ^ compter(ligne, autre(joueur)))
    ELSE 0

evaluer_ligne(ligne, joueur) ==
    LET adversaire == autre(joueur)
    IN  IF contient(ligne, joueur) /\ contient(ligne, adversaire) THEN 0
        ELSE IF contient(ligne, joueur) THEN 10 ^ compter(ligne, joueur)
        ELSE IF contient(ligne, adversaire)
        THEN -(10 ^ compter(ligne, adversaire))
        ELSE 0

\* The 8 lines of a 3x3 grid of cells in the order the evaluators build
\* them: rows 0..2, columns 0..2, main diagonal, anti-diagonal.
lignes_de(grille) ==
    << <<grille[0][0], grille[0][1], grille[0][2]>>,
       <<grille[1][0], grille[1][1], grille[1][2]>>,
       <<grille[2][0], grille[2][1], grille[2][2]>>,
       <<grille[0][0], grille[1][0], grille[2][0]>>,
       <<grille[0][1], grille[1][1], grille[2][1]>>,
       <<grille[0][2], grille[1][2], grille[2][2]>>,
       <<grille[0][0], grille[1][1], grille[2][2]>>,
       <<grille[0][2], grille[1][1], grille[2][0]>> >>

RECURSIVE somme(_, _)
\* score += f[k] for k = n down to 1 (an accumulation loop).
somme(f, n) == IF n = 0 THEN 0 ELSE f[n] + somme(f, n - 1)

evaluer_sous_plateau(plateau, joueur) ==
    LET centre == IF plateau.plateau[1][1] = joueur THEN 20
                  ELSE IF plateau.plateau[1][1] = autre(joueur) THEN -20
                  ELSE 0
        lignes == lignes_de(plateau.plateau)
    IN  centre + somme([k \in 1 .. 8 |-> evaluer_ligne(lignes[k], joueur)], 8)

\* Variant: a won sub-board is also scored on its cells.
score_du_sous_plateau_avec_cases(sp, joueur) ==
    IF sp.vainqueur = joueur THEN 10000 + evaluer_sous_plateau(sp, joueur)
    ELSE IF sp.vainqueur = autre(joueur)
    THEN evaluer_sous_plateau(sp, joueur) - 10000
    ELSE evaluer_sous_plateau(sp, joueur)

\* Step 1 of evaluer_ultime: what one sub-board adds to the score.
score_du_sous_plateau(sp, joueur) ==
    IF sp.vainqueur = joueur THEN 10000
    ELSE IF sp.vainqueur = autre(joueur) THEN -10000
    ELSE evaluer_sous_plateau(sp, joueur)

\* Step 2 of evaluer_ultime: the virtual grid pg of the sub-boards' winners.
pg(partie) ==
    [i \in R3 |-> [j \in R3 |->
        LET w == partie.plateaux[i][j].vainqueur
        IN  IF w # None /\ w # "DRAW" THEN w ELSE " "]]

evaluer_ultime(partie, joueur) ==
    LET lignes == lignes_de(pg(partie))
    IN  somme([k \in 1 .. 9 |->
                  score_du_sous_plateau(
                      partie.plateaux[cellules_3x3[k][1]][cellules_3x3[k][2]],
                      joueur)], 9)
        + somme([k \in 1 .. 8 |-> evaluer_ligne(lignes[k], joueur) * 10], 8)

\* The sub-board holds a fork of symbol s: at least two of its lines have
\* two cells of s and one empty cell.
fourche(sp, s) ==
    LET lignes == lignes_de(sp.plateau)
    IN  Cardinality({k \in 1 .. 8 : /\ compter(lignes[k], s) = 2
                                    /\ compter(lignes[k], " ") = 1}) >= 2

evaluer_difficile(partie, joueur) ==
    LET adversaire == autre(joueur)
        bonus(sp) == IF sp.jeu_termine THEN 0
                     ELSE (IF fourche(sp, joueur) THEN 300 ELSE 0)
                          - (IF fourche(sp, adversaire) THEN 300 ELSE 0)
    IN  evaluer_ultime(partie, joueur)
        + Len(obtenir_coups_valides(partie))
        + somme([k \in 1 .. 9 |->
                    bonus(partie.plateaux[cellules_3x3[k][1]][cellules_3x3[k][2]])],
                9)

\* ------------------------------------------------ objects held by reference
\* Python holds boards by reference.  The memory is a record of three
\* sequences of objects, and a reference is an index in its sequence:
\*   tas.lignes  the row lists of the sub-boards, each [j \in R3 |-> cell];
\*   tas.petits  the PetitPlateau objects, each [plateau, vainqueur,
\*               jeu_termine] with plateau[i] a reference to a row list;
\*   tas.jeux    the MorpionUltime objects, with plateaux[i][j] a reference
\*               to a PetitPlateau object.

\* The value a PetitPlateau reference denotes in memory t.
PetitPlateau_valeur(t, r) ==
    [ plateau     |-> [i \in R3 |-> t.lignes[t.petits[r].plateau[i]]],
      vainqueur   |-> t.petits[r].vainqueur,
      jeu_termine |-> t.petits[r].jeu_termine ]

\* The value a MorpionUltime reference denotes in memory t.
MorpionUltime_valeur(t, r) ==
    [ plateaux       |-> [i \in R3 |-> [j \in R3 |->
                            PetitPlateau_valeur(t, t.jeux[r].plateaux[i][j])]],
      joueur_courant |-> t.jeux[r].joueur_courant,
      plateau_actif  |-> t.jeux[r].plateau_actif,
      jeu_termine    |-> t.jeux[r].jeu_termine,
      vainqueur      |-> t.jeux[r].vainqueur ]

\* Variant: the copy holds the source's row lists (a copy of the outer list).
PetitPlateau_dupliquer_lignes_partagees(t, r) ==
    [ tas |-> [t EXCEPT !.petits = Append(@, t.petits[r])],
      ref |-> Len(t.petits) + 1 ]

\* PetitPlateau.dupliquer: a new object whose three row lists are new lists
\* with the source's cells (ligne[:]); the memory after, and the reference.
PetitPlateau_dupliquer(t, r) ==
    LET n == Len(t.lignes)
        nouveau == [ plateau     |-> [i \in R3 |-> n + 1 + i],
                     vainqueur   |-> t.petits[r].vainqueur,
                     jeu_termine |-> t.petits[r].jeu_termine ]
    IN  [ tas |-> [t EXCEPT
                     !.lignes = @ \o [k \in 1 .. 3 |->
                                        t.lignes[t.petits[r].plateau[k - 1]]],
                     !.petits = Append(@, nouveau)],
          ref |-> Len(t.petits) + 1 ]

\* The middle of a .. b: a loop over a .. b is its turns a .. Milieu(a, b)
\* followed by its turns Milieu(a, b) + 1 .. b.
Milieu(a, b) == (a + b) \div 2

RECURSIVE dupliquer_plateaux(_, _, _, _, _)
\* [[self.plateaux[i][j].dupliquer() for j ...] for i ...], the sub-boards
\* a .. b in order, from the memory and the references of the copies made
\* so far (fait).
dupliquer_plateaux(t, r, a, b, fait) ==
    IF a > b THEN fait
    ELSE IF a = b
    THEN Soit(PetitPlateau_dupliquer(
                  fait.tas,
                  t.jeux[r].plateaux[cellules_3x3[a][1]][cellules_3x3[a][2]]),
              LAMBDA d :
             [ tas |-> d.tas, refs |-> Append(fait.refs, d.ref) ])
    ELSE Soit(dupliquer_plateaux(t, r, a, Milieu(a, b), fait), LAMBDA moitie :
             dupliquer_plateaux(t, r, Milieu(a, b) + 1, b, moitie))

\* Variant: the copy holds the source's PetitPlateau objects.
MorpionUltime_dupliquer_plateaux_partages(t, r) ==
    [ tas |-> [t EXCEPT !.jeux = Append(@, t.jeux[r])],
      ref |-> Len(t.jeux) + 1 ]

\* MorpionUltime.dupliquer: the memory after, and the clone's reference.
MorpionUltime_dupliquer(t, r) ==
    Soit(dupliquer_plateaux(t, r, 1, Len(cellules_3x3),
                            [ tas |-> t, refs |-> << >> ]), LAMBDA d :
    Soit([ plateaux       |-> [i \in R3 |-> [j \in R3 |->
                                 d.refs[3 * i + j + 1]]],
           joueur_courant |-> t.jeux[r].joueur_courant,
           plateau_actif  |-> t.jeux[r].plateau_actif,
           jeu_termine    |-> t.jeux[r].jeu_termine,
           vainqueur      |-> t.jeux[r].vainqueur ], LAMBDA clone :
        [ tas |-> [d.tas EXCEPT !.jeux = Append(@, clone)],
          ref |-> Len(t.jeux) + 1 ]))

\* jouer_coup on the object r of memory t: the call reads the object's
\* value and, when the move is accepted, writes the played cell in its row
\* list, the outcome in the PetitPlateau object played and the four scalar
\* fields in the MorpionUltime object.  The memory after, and the value
\* returned.
MorpionUltime_jouer_coup_en_place(t, r, sp_l, sp_c, cel_l, cel_c) ==
    Soit(MorpionUltime_valeur(t, r), LAMBDA g :
    Soit(MorpionUltime_jouer_coup(g, sp_l, sp_c, cel_l, cel_c), LAMBDA res :
        IF ~res.ret THEN [ tas |-> t, ret |-> FALSE ]
        ELSE
          LET sp == t.jeux[r].plateaux[sp_l][sp_c]
              li == t.petits[sp].plateau[cel_l]
              joue == res.g.plateaux[sp_l][sp_c]
          IN  [ tas |-> [t EXCEPT
                    !.lignes[li] = joue.plateau[cel_l],
                    !.petits[sp] = [@ EXCEPT !.vainqueur = joue.vainqueur,
                                             !.jeu_termine = joue.jeu_termine],
                    !.jeux[r] = [@ EXCEPT
                                   !.joueur_courant = res.g.joueur_courant,
                                   !.plateau_actif = res.g.plateau_actif,
                                   !.jeu_termine = res.g.jeu_termine,
                                   !.vainqueur = res.g.vainqueur]],
                ret |-> TRUE ]))

\* MorpionUltime(): nine PetitPlateau objects of three row lists each, here
\* with the contents of the board value g (the state a game has reached).
MorpionUltime_en_memoire(g) ==
    [ lignes |-> [k \in 1 .. 27 |->
                    g.plateaux[(k - 1) \div 9][((k - 1) \div 3) % 3]
                        .plateau[(k - 1) % 3]],
      petits |-> [k \in 1 .. 9 |->
                    [ plateau     |-> [i \in R3 |-> 3 * (k - 1) + 1 + i],
                      vainqueur   |->
                          g.plateaux[(k - 1) \div 3][(k - 1) % 3].vainqueur,
                      jeu_termine |->
                          g.plateaux[(k - 1) \div 3][(k - 1) % 3].jeu_termine ]],
      jeux   |-> << [ plateaux       |-> [i \in R3 |-> [j \in R3 |->
                                            3 * i + j + 1]],
                      joueur_courant |-> g.joueur_courant,
                      plateau_actif  |-> g.plateau_actif,
                      jeu_termine    |-> g.jeu_termine,
                      vainqueur      |-> g.vainqueur ] >> ]

\* ------------------------------------------------------ ai.py: strategies
\* math.inf and -math.inf: every score lies strictly between the two (nine
\* sub-boards at 10000, eight lines of the virtual grid at 10 * 1000, the
\* cells' scores, the mobility and the forks stay under 200000).
plus_l_infini == 1000000
moins_l_infini == 0 - plus_l_infini
\* Python's None, for a move (otherwise a 4-tuple).
AucunCoup == << >>
max(a, b) == IF a >= b THEN a ELSE b
\* Variant: the greater of the two where the lesser is meant.
min_qui_maximise(a, b) == IF a >= b THEN a ELSE b
min(a, b) == IF a <= b THEN a ELSE b

\* Variant: the move is played on the board itself, without a copy.
cloner_et_jouer_sans_copie(t, partie, mv) ==
    [ tas   |-> MorpionUltime_jouer_coup_en_place(
                    t, partie, mv[1], mv[2], mv[3], mv[4]).tas,
      clone |-> partie ]

\* clone = partie.dupliquer(); clone.jouer_coup(*mv): the memory after, and
\* the clone's reference.
cloner_et_jouer(t, partie, mv) ==
    Soit(MorpionUltime_dupliquer(t, partie), LAMBDA d :
        [ tas   |-> MorpionUltime_jouer_coup_en_place(
                        d.tas, d.ref, mv[1], mv[2], mv[3], mv[4]).tas,
          clone |-> d.ref ])

\* The local variable clone is rebound or dropped: the objects made since
\* memory `avant` are out of reach and leave memory t.
oublier(t, avant) ==
    [ lignes |-> SubSeq(t.lignes, 1, Len(avant.lignes)),
      petits |-> SubSeq(t.petits, 1, Len(avant.petits)),
      jeux   |-> SubSeq(t.jeux, 1, Len(avant.jeux)) ]

\* The strategy objects: IA.__init__ and the subclasses' __init__.
IAFacile(joueur) ==
    [ classe |-> "IAFacile", joueur |-> joueur, adversaire |-> autre(joueur),
      profondeur_max |-> 1, score_dernier_coup |-> None ]
IAMoyenne(joueur) ==
    [ classe |-> "IAMoyenne", joueur |-> joueur, adversaire |-> autre(joueur),
      profondeur_max |-> 3, score_dernier_coup |-> None ]
IADifficile(joueur) ==
    [ classe |-> "IADifficile", joueur |-> joueur, adversaire |-> autre(joueur),
      profondeur_max |-> 4, score_dernier_coup |-> None ]

\* ---- IAFacile
\* Variant: a later move with an equal score replaces the best move.
IAFacile_essai_egal(self, partie, mv, m) ==
    Soit(cloner_et_jouer(m.tas, partie, mv), LAMBDA c :
    Soit(MorpionUltime_valeur(c.tas, c.clone), LAMBDA clone :
    Soit(evaluer_ultime(clone, self.joueur), LAMBDA sc :
        IF sc >= m.score
        THEN [ tas |-> oublier(c.tas, m.tas), coup |-> mv, score |-> sc ]
        ELSE [ tas |-> oublier(c.tas, m.tas), coup |-> m.coup,
               score |-> m.score ])))

\* One turn of the loop of IAFacile.get_move, for the legal move mv, from
\* the memory, the best score and the best move so far (m).
IAFacile_essai(self, partie, mv, m) ==
    Soit(cloner_et_jouer(m.tas, partie, mv), LAMBDA c :
    Soit(MorpionUltime_valeur(c.tas, c.clone), LAMBDA clone :
    Soit(evaluer_ultime(clone, self.joueur), LAMBDA sc :
        IF sc > m.score
        THEN [ tas |-> oublier(c.tas, m.tas), coup |-> mv, score |-> sc ]
        ELSE [ tas |-> oublier(c.tas, m.tas), coup |-> m.coup,
               score |-> m.score ])))

RECURSIVE IAFacile_boucle(_, _, _, _, _, _)
\* The turns a .. b of the loop of IAFacile.get_move, from m.
IAFacile_boucle(self, partie, coups, a, b, m) ==
    IF a > b THEN m
    ELSE IF a = b THEN IAFacile_essai(self, partie, coups[a], m)
    ELSE Soit(IAFacile_boucle(self, partie, coups, a, Milieu(a, b), m),
              LAMBDA m2 :
             IAFacile_boucle(self, partie, coups, Milieu(a, b) + 1, b, m2))

\* Variant: the best score starts at 0 instead of -math.inf.
IAFacile_get_move_depuis_zero(self, t, partie) ==
    Soit(obtenir_coups_valides(MorpionUltime_valeur(t, partie)), LAMBDA coups :
    Soit(IAFacile_boucle(self, partie, coups, 1, Len(coups),
                         [ tas |-> t, coup |-> AucunCoup, score |-> 0 ]),
         LAMBDA m :
        [ tas |-> m.tas, coup |-> m.coup, score |-> m.score,
          exception |-> "aucune" ]))

\* IAFacile.get_move: the memory after, the move returned and
\* score_dernier_coup.
IAFacile_get_move(self, t, partie) ==
    Soit(obtenir_coups_valides(MorpionUltime_valeur(t, partie)), LAMBDA coups :
    Soit(IAFacile_boucle(self, partie, coups, 1, Len(coups),
                         [ tas |-> t, coup |-> AucunCoup,
                           score |-> moins_l_infini ]),
         LAMBDA m :
        [ tas |-> m.tas, coup |-> m.coup, score |-> m.score,
          exception |-> "aucune" ]))

\* ---- IAMoyenne
RECURSIVE IAMoyenne_minimax(_, _, _, _, _)
RECURSIVE IAMoyenne_minimax_boucle(_, _, _, _, _, _, _, _, _)

\* One turn of the loop of a node of IAMoyenne.minimax, for the legal move
\* mv, from the memory and the value so far (acc).  g is the node's value
\* when the loop started; acc.intacte tells that the node's board still had
\* that value after each turn.
IAMoyenne_minimax_essai(self, partie, g, profondeur, est_max, mv, acc) ==
    Soit(cloner_et_jouer(acc.tas, partie, mv), LAMBDA c :
    Soit(IAMoyenne_minimax(self, c.tas, c.clone, profondeur + 1, ~est_max),
         LAMBDA r :
    Soit(oublier(r.tas, acc.tas), LAMBDA t2 :
        [ tas     |-> t2,
          val     |-> IF est_max THEN max(acc.val, r.val)
                      ELSE min(acc.val, r.val),
          intacte |-> /\ acc.intacte
                      /\ r.intacte
                      /\ MorpionUltime_valeur(t2, partie) = g ])))

\* The turns a .. b of the loop of a node of IAMoyenne.minimax, from acc.
IAMoyenne_minimax_boucle(self, partie, g, profondeur, est_max, coups, a, b, acc) ==
    IF a > b THEN acc
    ELSE IF a = b
    THEN IAMoyenne_minimax_essai(self, partie, g, profondeur, est_max,
                                 coups[a], acc)
    ELSE Soit(IAMoyenne_minimax_boucle(self, partie, g, profondeur, est_max,
                                       coups, a, Milieu(a, b), acc),
              LAMBDA acc2 :
             IAMoyenne_minimax_boucle(self, partie, g, profondeur, est_max,
                                      coups, Milieu(a, b) + 1, b, acc2))

\* IAMoyenne.minimax: the memory after and the value returned.
IAMoyenne_minimax(self, t, partie, profondeur, est_max) ==
    Soit(MorpionUltime_valeur(t, partie), LAMBDA g :
        IF g.jeu_termine \/ profondeur = self.profondeur_max
        THEN [ tas |-> t, val |-> evaluer_ultime(g, self.joueur),
               intacte |-> TRUE ]
        ELSE Soit(obtenir_coups_valides(g), LAMBDA coups :
                 IAMoyenne_minimax_boucle(
                     self, partie, g, profondeur, est_max, coups, 1,
                     Len(coups),
                     [ tas     |-> t,
                       val     |-> IF est_max THEN moins_l_infini
                                   ELSE plus_l_infini,
                       intacte |-> TRUE ])))

\* random.choice(seq) when the generator draws index n: the value returned
\* and the exception raised (IndexError on an empty sequence).
random_choice(seq, n) ==
    IF seq = << >> THEN [ ret |-> AucunCoup, exception |-> "IndexError" ]
    ELSE [ ret |-> seq[n], exception |-> "aucune" ]
\* The indices random.choice(seq) may draw (0 stands for the failed draw).
tirages(seq) == IF seq = << >> THEN {0} ELSE DOMAIN seq

\* IAMoyenne.get_move when random.random() < taux_erreur_strategique and
\* random.choice draws index n.
IAMoyenne_get_move_erreur(self, t, partie, n) ==
    Soit(random_choice(
             obtenir_coups_valides(MorpionUltime_valeur(t, partie)), n),
         LAMBDA mv :
        IF mv.exception # "aucune"
        THEN [ tas |-> t, coup |-> AucunCoup,
               score |-> self.score_dernier_coup, intacte |-> TRUE,
               exception |-> mv.exception ]
        ELSE Soit(cloner_et_jouer(t, partie, mv.ret), LAMBDA c :
             Soit(MorpionUltime_valeur(c.tas, c.clone), LAMBDA clone :
                 [ tas       |-> oublier(c.tas, t),
                   coup      |-> mv.ret,
                   score     |-> evaluer_ultime(clone, self.joueur),
                   intacte   |-> TRUE,
                   exception |-> "aucune" ])))

\* One turn of the loop of IAMoyenne.get_move, for the legal move mv, from
\* the memory, the best score and the list of the moves that reach it (m).
IAMoyenne_essai(self, partie, mv, m) ==
    Soit(cloner_et_jouer(m.tas, partie, mv), LAMBDA c :
    Soit(IAMoyenne_minimax(self, c.tas, c.clone, 1, FALSE), LAMBDA r :
        [ tas       |-> oublier(r.tas, m.tas),
          score     |-> max(m.score, r.val),
          meilleurs |-> IF r.val > m.score THEN << mv >>
                        ELSE IF r.val = m.score THEN Append(m.meilleurs, mv)
                        ELSE m.meilleurs,
          intacte   |-> m.intacte /\ r.intacte ]))

RECURSIVE IAMoyenne_boucle(_, _, _, _, _, _)
\* The turns a .. b of the loop of IAMoyenne.get_move, from m.
IAMoyenne_boucle(self, partie, coups, a, b, m) ==
    IF a > b THEN m
    ELSE IF a = b THEN IAMoyenne_essai(self, partie, coups[a], m)
    ELSE Soit(IAMoyenne_boucle(self, partie, coups, a, Milieu(a, b), m),
              LAMBDA m2 :
             IAMoyenne_boucle(self, partie, coups, Milieu(a, b) + 1, b, m2))

\* IAMoyenne.get_move when random.random() >= taux_erreur_strategique, up
\* to the final random.choice(meilleurs).
IAMoyenne_get_move_recherche(self, t, partie) ==
    Soit(obtenir_coups_valides(MorpionUltime_valeur(t, partie)), LAMBDA coups :
        IAMoyenne_boucle(self, partie, coups, 1, Len(coups),
                         [ tas |-> t, score |-> moins_l_infini,
                           meilleurs |-> << >>, intacte |-> TRUE ]))

\* ---- IADifficile
RECURSIVE IADifficile_minimax(_, _, _, _, _, _, _)
RECURSIVE IADifficile_minimax_boucle(_, _, _, _, _, _, _, _, _)

\* One turn of the loop of a node of IADifficile.minimax, for the legal
\* move mv, from the memory, val, alpha and beta so far (acc); acc.coupe
\* tells that the loop has met its break (alpha >= beta), after which the
\* turns do nothing.
IADifficile_minimax_essai(self, partie, g, profondeur, est_max, mv, acc) ==
    IF acc.coupe THEN acc
    ELSE
    Soit(cloner_et_jouer(acc.tas, partie, mv), LAMBDA c :
    Soit(IADifficile_minimax(self, c.tas, c.clone, profondeur + 1,
                             acc.alpha, acc.beta, ~est_max), LAMBDA r :
    Soit(oublier(r.tas, acc.tas), LAMBDA t2 :
    Soit(IF est_max THEN max(acc.val, r.val) ELSE min(acc.val, r.val),
         LAMBDA val :
    Soit(IF est_max THEN max(acc.alpha, val) ELSE acc.alpha, LAMBDA alpha :
    Soit(IF est_max THEN acc.beta ELSE min(acc.beta, val), LAMBDA beta :
        [ tas     |-> t2,
          val     |-> val,
          alpha   |-> alpha,
          beta    |-> beta,
          coupe   |-> alpha >= beta,
          intacte |-> /\ acc.intacte
                      /\ r.intacte
                      /\ MorpionUltime_valeur(t2, partie) = g ]))))))

\* The turns a .. b of the loop of a node of IADifficile.minimax, from acc.
IADifficile_minimax_boucle(self, partie, g, profondeur, est_max, coups, a, b, acc) ==
    IF a > b THEN acc
    ELSE IF a = b
    THEN IADifficile_minimax_essai(self, partie, g, profondeur, est_max,
                                   coups[a], acc)
    ELSE Soit(IADifficile_minimax_boucle(self, partie, g, profondeur, est_max,
                                         coups, a, Milieu(a, b), acc),
              LAMBDA acc2 :
             IADifficile_minimax_boucle(self, partie, g, profondeur, est_max,
                                        coups, Milieu(a, b) + 1, b, acc2))

\* IADifficile.minimax: the memory after and the value returned.
IADifficile_minimax(self, t, partie, profondeur, alpha, beta, est_max) ==
    Soit(MorpionUltime_valeur(t, partie), LAMBDA g :
        IF g.jeu_termine \/ profondeur = self.profondeur_max
        THEN [ tas |-> t, val |-> evaluer_difficile(g, self.joueur),
               intacte |-> TRUE ]
        ELSE Soit(obtenir_coups_valides(g), LAMBDA coups :
                 IADifficile_minimax_boucle(
                     self, partie, g, profondeur, est_max, coups, 1,
                     Len(coups),
                     [ tas     |-> t,
                       val     |-> IF est_max THEN moins_l_infini
                                   ELSE plus_l_infini,
                       alpha   |-> alpha,
                       beta    |-> beta,
                       coupe   |-> FALSE,
                       intacte |-> TRUE ])))

\* Variant: a later root move whose returned value equals the best score
\* replaces the best move.
IADifficile_essai_egal(self, partie, mv, m) ==
    Soit(cloner_et_jouer(m.tas, partie, mv), LAMBDA c :
    Soit(IADifficile_minimax(self, c.tas, c.clone, 1, m.alpha, plus_l_infini,
                             FALSE), LAMBDA r :
        [ tas     |-> oublier(r.tas, m.tas),
          score   |-> max(m.score, r.val),
          coup    |-> IF r.val >= m.score THEN mv ELSE m.coup,
          alpha   |-> max(m.alpha, max(m.score, r.val)),
          intacte |-> m.intacte /\ r.intacte ]))

\* One turn of the loop of IADifficile.get_move, for the legal move mv,
\* from the memory, the best score, the best move and alpha so far (m).
IADifficile_essai(self, partie, mv, m) ==
    Soit(cloner_et_jouer(m.tas, partie, mv), LAMBDA c :
    Soit(IADifficile_minimax(self, c.tas, c.clone, 1, m.alpha, plus_l_infini,
                             FALSE), LAMBDA r :
        [ tas     |-> oublier(r.tas, m.tas),
          score   |-> max(m.score, r.val),
          coup    |-> IF r.val > m.score THEN mv ELSE m.coup,
          alpha   |-> max(m.alpha, max(m.score, r.val)),
          intacte |-> m.intacte /\ r.intacte ]))

RECURSIVE IADifficile_boucle(_, _, _, _, _, _)
\* The turns a .. b of the loop of IADifficile.get_move, from m.
IADifficile_boucle(self, partie, coups, a, b, m) ==
    IF a > b THEN m
    ELSE IF a = b THEN IADifficile_essai(self, partie, coups[a], m)
    ELSE Soit(IADifficile_boucle(self, partie, coups, a, Milieu(a, b), m),
              LAMBDA m2 :
             IADifficile_boucle(self, partie, coups, Milieu(a, b) + 1, b, m2))

\* IADifficile.get_move: the memory after, the move returned and
\* score_dernier_coup.
IADifficile_get_move(self, t, partie) ==
    Soit(obtenir_coups_valides(MorpionUltime_valeur(t, partie)), LAMBDA coups :
    Soit(IADifficile_boucle(self, partie, coups, 1, Len(coups),
                            [ tas |-> t, score |-> moins_l_infini,
                              coup |-> AucunCoup, alpha |-> moins_l_infini,
                              intacte |-> TRUE ]),
         LAMBDA m :
        [ tas |-> m.tas, coup |-> m.coup, score |-> m.score,
          intacte |-> m.intacte, exception |-> "aucune" ]))

\* ------------------------------------------------------------------ bounds
\* Successful moves explored after the starting position of a behaviour.
MaxCoups == 1
\* Calls of jouer_coup on a board and its clone in a behaviour.
MaxCoupsClone == 2
\* Calls of get_move in a behaviour.
MaxAppelsIA == 2

\* Call arguments: every index is drawn from -1 .. 3 (two values out of range);
\* a call has at most one index out of range.
Indices == -1 .. 3
Appels ==
    {m \in Indices \X Indices \X Indices \X Indices :
        Cardinality({k \in 1 .. 4 : m[k] \notin 0 .. 2}) <= 1}

\* -------------------------------------------------------- played positions
\* Legal games played from the empty board, each stopped one move before it
\* ends; a behaviour starts from the empty board, after one of them, or after
\* one of the two games played to their end (parties_finies).
\* 34 moves
partie_winX ==
    <<
       <<0,0,0,0>>, <<0,0,1,0>>, <<1,0,2,2>>, <<2,2,0,1>>, <<0,1,0,2>>, <<0,2,0,2>>,
       <<0,2,1,1>>, <<1,1,1,0>>, <<1,0,1,2>>, <<1,2,0,2>>, <<0,2,1,0>>, <<1,0,0,0>>,
       <<0,0,2,0>>, <<2,0,0,0>>, <<0,0,2,2>>, <<2,2,2,0>>, <<2,0,1,0>>, <<1,0,0,1>>,
       <<0,1,2,2>>, <<2,2,0,0>>, <<0,0,2,1>>, <<2,1,1,0>>, <<1,0,1,1>>, <<1,1,0,1>>,
       <<0,1,1,2>>, <<1,2,1,2>>, <<1,2,2,2>>, <<2,2,1,1>>, <<1,1,0,0>>, <<1,1,0,2>>,
       <<0,2,2,2>>, <<2,2,1,2>>, <<1,2,1,0>>, <<1,0,0,2>> >>

\* 27 moves
partie_winO ==
    <<
       <<0,1,1,1>>, <<1,1,2,0>>, <<2,0,2,1>>, <<2,1,1,1>>, <<1,1,1,0>>, <<1,0,2,0>>,
       <<2,0,1,0>>, <<1,0,1,1>>, <<1,1,1,1>>, <<1,1,0,2>>, <<0,2,0,0>>, <<0,0,0,1>>,
       <<0,1,0,1>>, <<0,1,0,2>>, <<0,2,1,1>>, <<1,1,1,2>>, <<1,2,1,1>>, <<1,1,2,2>>,
       <<2,2,1,2>>, <<1,2,2,0>>, <<2,0,1,2>>, <<1,2,0,0>>, <<0,0,2,2>>, <<2,2,2,1>>,
       <<2,1,1,2>>, <<1,2,1,0>>, <<1,0,1,0>> >>

\* 46 moves
partie_antic_xo ==
    <<
       <<0,0,2,0>>, <<2,0,0,2>>, <<0,2,2,1>>, <<2,1,0,0>>, <<0,0,2,1>>, <<2,1,0,1>>,
       <<0,1,1,0>>, <<1,0,0,0>>, <<0,0,2,2>>, <<2,2,0,1>>, <<0,1,2,2>>, <<2,2,2,2>>,
       <<2,2,0,2>>, <<0,2,2,0>>, <<2,0,2,1>>, <<2,1,0,2>>, <<0,2,1,0>>, <<1,0,1,2>>,
       <<1,2,2,1>>, <<0,2,0,1>>, <<0,1,0,0>>, <<0,1,2,0>>, <<2,0,2,2>>, <<2,2,2,0>>,
       <<2,0,2,0>>, <<0,2,0,0>>, <<1,1,1,0>>, <<1,0,2,2>>, <<2,2,1,2>>, <<1,2,2,0>>,
       <<1,2,2,2>>, <<2,2,1,1>>, <<1,1,1,1>>, <<1,1,2,1>>, <<1,2,1,1>>, <<1,1,0,2>>,
       <<0,2,2,2>>, <<2,2,2,1>>, <<0,1,0,2>>, <<0,2,0,2>>, <<1,2,0,1>>, <<0,1,1,2>>,
       <<1,0,0,1>>, <<0,1,1,1>>, <<1,1,0,0>>, <<1,0,0,2>> >>

\* 43 moves
partie_antic_draw ==
    <<
       <<2,0,1,0>>, <<1,0,0,2>>, <<0,2,1,0>>, <<1,0,1,1>>, <<1,1,2,2>>, <<2,2,2,0>>,
       <<2,0,0,0>>, <<0,0,2,1>>, <<2,1,1,1>>, <<1,1,2,0>>, <<2,0,2,0>>, <<2,2,1,1>>,
       <<1,1,1,0>>, <<1,0,1,0>>, <<1,0,2,1>>, <<2,1,0,2>>, <<0,2,2,0>>, <<1,1,2,1>>,
       <<2,1,1,2>>, <<1,2,0,2>>, <<0,2,0,0>>, <<0,0,0,1>>, <<0,1,0,0>>, <<0,0,2,0>>,
       <<2,2,2,1>>, <<2,1,0,0>>, <<0,0,1,2>>, <<1,2,2,0>>, <<0,1,2,1>>, <<2,1,0,1>>,
       <<0,1,1,1>>, <<1,1,1,1>>, <<1,1,0,1>>, <<0,1,2,0>>, <<0,1,0,1>>, <<1,1,1,2>>,
       <<1,2,2,1>>, <<2,2,0,2>>, <<1,2,0,1>>, <<0,0,1,1>>, <<1,1,0,2>>, <<1,0,0,1>>,
       <<1,0,2,0>> >>

\* 57 moves
partie_triple_draw_mid ==
    <<
       <<0,1,1,0>>, <<1,0,0,2>>, <<0,2,1,2>>, <<1,2,0,0>>, <<0,0,2,0>>, <<2,0,0,2>>,
       <<0,2,1,1>>, <<1,1,1,0>>, <<1,0,1,0>>, <<1,0,2,1>>, <<2,1,2,1>>, <<2,1,1,2>>,
       <<1,2,2,1>>, <<2,1,2,2>>, <<2,2,2,0>>, <<2,0,0,0>>, <<0,0,1,0>>, <<1,0,1,2>>,
       <<1,2,2,2>>, <<2,2,0,2>>, <<0,2,1,0>>, <<1,0,0,0>>, <<0,0,0,0>>, <<2,2,2,2>>,
       <<2,2,1,2>>, <<1,2,1,2>>, <<1,2,1,0>>, <<1,0,1,1>>, <<1,1,0,0>>, <<0,1,2,2>>,
       <<2,2,0,1>>, <<0,1,2,0>>, <<2,0,1,2>>, <<1,2,1,1>>, <<1,1,1,1>>, <<1,1,2,2>>,
       <<2,2,2,1>>, <<2,1,2,0>>, <<2,0,0,1>>, <<0,1,2,1>>, <<2,1,1,0>>, <<1,0,2,0>>,
       <<2,0,1,1>>, <<1,1,0,1>>, <<2,1,0,2>>, <<2,1,1,1>>, <<1,1,2,0>>, <<2,0,2,1>>,
       <<2,1,0,0>>, <<2,2,1,1>>, <<1,1,2,1>>, <<2,1,0,1>>, <<2,2,0,0>>, <<2,2,1,0>>,
       <<2,0,2,2>>, <<1,2,2,0>>, <<2,0,2,0>> >>

\* 46 moves
partie_exhaust ==
    <<
       <<0,0,1,1>>, <<1,1,0,2>>, <<0,2,0,2>>, <<0,2,0,1>>, <<0,1,2,2>>, <<2,2,0,0>>,
       <<0,0,2,0>>, <<2,0,0,0>>, <<0,0,0,2>>, <<0,2,2,1>>, <<2,1,1,1>>, <<1,1,2,2>>,
       <<2,2,1,0>>, <<1,0,0,2>>, <<0,2,1,0>>, <<1,0,1,2>>, <<1,2,1,2>>, <<1,2,1,0>>,
       <<1,0,1,1>>, <<1,1,1,2>>, <<1,2,0,2>>, <<0,2,1,2>>, <<1,2,1,1>>, <<1,0,2,2>>,
       <<2,2,0,1>>, <<0,1,0,0>>, <<0,2,2,0>>, <<2,0,1,0>>, <<2,1,1,0>>, <<2,2,1,1>>,
       <<1,2,0,1>>, <<0,1,1,0>>, <<1,2,2,0>>, <<2,0,2,1>>, <<2,1,0,1>>, <<0,1,1,2>>,
       <<0,2,1,1>>, <<0,1,2,0>>, <<2,0,2,2>>, <<2,2,1,2>>, <<2,2,2,1>>, <<2,1,0,2>>,
       <<2,1,2,2>>, <<2,2,2,2>>, <<2,1,2,0>>, <<2,0,2,0>> >>

\* 44 moves
partie_win_ninth ==
    <<
       <<1,0,2,2>>, <<2,2,1,2>>, <<1,2,0,0>>, <<0,0,0,0>>, <<0,0,0,2>>, <<0,2,2,1>>,
       <<2,1,2,2>>, <<2,2,1,0>>, <<1,0,0,1>>, <<0,1,0,0>>, <<0,0,0,1>>, <<0,1,2,1>>,
       <<2,1,1,1>>, <<1,1,2,0>>, <<2,0,0,0>>, <<0,0,1,1>>, <<1,1,0,2>>, <<0,2,1,2>>,
       <<1,2,2,2>>, <<2,2,0,0>>, <<0,0,2,2>>, <<2,2,1,1>>, <<1,1,0,1>>, <<0,1,2,0>>,
       <<2,0,0,2>>, <<0,2,1,0>>, <<1,0,1,1>>, <<1,1,2,1>>, <<2,1,0,2>>, <<0,2,1,1>>,
       <<1,1,1,1>>, <<1,1,1,2>>, <<1,2,1,1>>, <<1,1,2,2>>, <<2,1,1,0>>, <<1,0,1,2>>,
       <<2,1,2,1>>, <<2,1,0,0>>, <<0,0,1,2>>, <<2,0,1,1>>, <<2,1,1,2>>, <<1,0,1,0>>,
       <<1,0,2,1>>, <<0,1,2,2>> >>

parties_finies ==
    << Append(partie_winX, <<0, 2, 1, 2>>),
       Append(partie_antic_draw, <<1, 1, 0, 0>>) >>

parties ==
    << << >>, partie_winX, partie_winO, partie_antic_xo, partie_antic_draw,
       partie_triple_draw_mid, partie_exhaust, partie_win_ninth >>
        \o parties_finies

RECURSIVE rejouer(_, _, _)
\* The board after the moves k .. Len(coups) of a game are applied in turn,
\* as the driver loop does; the replay stops at a move that is rejected.
rejouer(g, coups, k) ==
    IF k > Len(coups) THEN g
    ELSE LET m == coups[k]
             r == MorpionUltime_jouer_coup(g, m[1], m[2], m[3], m[4])
         IN  IF r.ret THEN rejouer(r.g, coups, k + 1) ELSE g

\* ----------------------------------------------------------- state machine
VARIABLES
    jeu,        \* the live MorpionUltime object
    pc,         \* "saisie": the driver awaits a move; "resultat": a call returned
    appel,      \* the arguments of the call that returned (<< >> at "saisie")
    retour,     \* the value jouer_coup returned
    nb_coups,   \* successful moves since the start of the behaviour
    tas,        \* the objects in memory, when boards are held by reference
    ia,         \* the strategy object and what its get_move returned
    mesure      \* an evaluator's argument and the score it returned

vars == <<jeu, pc, appel, retour, nb_coups, tas, ia, mesure>>

\* What a specification leaves aside has this value throughout.
HorsService == << >>

Init ==
    /\ \E n \in DOMAIN parties :
          jeu = rejouer(MorpionUltime_reinitialiser, parties[n], 1)
    /\ pc = "saisie"
    /\ appel = << >>
    /\ retour = FALSE
    /\ nb_coups = 0
    /\ tas = HorsService
    /\ ia = HorsService
    /\ mesure = HorsService

\* jeu.jouer_coup(sp_l, sp_c, cel_l, cel_c), called by the driver loop.
JouerCoup(m) ==
    /\ pc = "saisie"
    /\ LET r == MorpionUltime_jouer_coup(jeu, m[1], m[2], m[3], m[4])
       IN  /\ r.ret => nb_coups < MaxCoups
           /\ jeu' = r.g
           /\ retour' = r.ret
           /\ nb_coups' = IF r.ret THEN nb_coups + 1 ELSE nb_coups
    /\ appel' = m
    /\ pc' = "resultat"
    /\ UNCHANGED <<tas, ia, mesure>>

\* The driver loop goes round: the call's arguments and result are dropped.
Reprendre ==
    /\ pc = "resultat"
    /\ pc' = "saisie"
    /\ appel' = << >>
    /\ retour' = FALSE
    /\ UNCHANGED <<jeu, nb_coups, tas, ia, mesure>>

Next ==
    \/ \E m \in Appels : JouerCoup(m)
    \/ Reprendre

\* The rules engine driven by hand: no strategy, no clone, no evaluator.
Spec == Init /\ [][Next]_vars

\* ------------------------------------------------- vocabulary of the claims
\* The claims speak of outcomes and cells; these read them off a board.
Coups == R3 \X R3 \X R3 \X R3
DansLimites(m) == \A k \in 1 .. 4 : m[k] \in R3
Issue(g, a, b) == g.plateaux[a][b].vainqueur
EnCours(g, a, b) == Issue(g, a, b) = None
Case(g, a, b, i, j) == g.plateaux[a][b].plateau[i][j]
PartieEnCours(g) == ~g.jeu_termine
ElementsDe(seq) == {seq[k] : k \in DOMAIN seq}
UnAppelARendu == pc = "saisie" /\ pc' = "resultat"
CoupAccepte == pc = "resultat" /\ retour
CoupRejete == pc = "resultat" /\ ~retour

\* The empty cells of the sub-boards in progress among `plateaux`, as moves.
CasesVides(g, plateaux) ==
    {m \in Coups : /\ <<m[1], m[2]>> \in plateaux
                   /\ EnCours(g, m[1], m[2])
                   /\ Case(g, m[1], m[2], m[3], m[4]) = " "}

\* ---------------------------------------------------------------------- C1
\* The four ways a move is invalid, according to the claim.
C1_HorsLimites(m) == ~DansLimites(m)
C1_SousPlateauTermine(g, m) == DansLimites(m) /\ ~EnCours(g, m[1], m[2])
C1_CaseOccupee(g, m) ==
    DansLimites(m) /\ Case(g, m[1], m[2], m[3], m[4]) # " "
C1_HorsPlateauActif(g, m) ==
    /\ DansLimites(m)
    /\ g.plateau_actif # AucunPlateau
    /\ g.plateau_actif # <<m[1], m[2]>>
C1_CoupInvalide(g, m) ==
    \/ C1_HorsLimites(m)
    \/ C1_SousPlateauTermine(g, m)
    \/ C1_CaseOccupee(g, m)
    \/ C1_HorsPlateauActif(g, m)

\* C1: a call of jouer_coup with a move that is out of range, targets a
\* finished sub-board, targets an occupied cell or is outside the imposed
\* sub-board returns False and leaves the whole board unchanged.
C1_CoupInvalideRejete ==
    [][ (UnAppelARendu /\ C1_CoupInvalide(jeu, appel'))
            => (retour' = FALSE /\ jeu' = jeu) ]_vars

\* C1 witness: a call was rejected only for being outside the imposed
\* sub-board (in range, sub-board in progress, cell empty, game in progress).
C1_Temoin ==
    /\ CoupRejete
    /\ PartieEnCours(jeu)
    /\ C1_HorsPlateauActif(jeu, appel)
    /\ ~C1_SousPlateauTermine(jeu, appel)
    /\ ~C1_CaseOccupee(jeu, appel)

\* ---------------------------------------------------------------------- C2
\* C2: once the game is over (won or drawn), every call of jouer_coup
\* returns False and the board never changes again.
C2_PartieTermineeFigee ==
    [][ jeu.jeu_termine
            => (jeu' = jeu /\ (UnAppelARendu => retour' = FALSE)) ]_vars

\* C2 witness: after an anticipated draw (no winner, a sub-board still in
\* progress), a call that is valid in every other respect was rejected.
C2_Temoin ==
    /\ CoupRejete
    /\ jeu.jeu_termine
    /\ jeu.vainqueur = None
    /\ ~C1_CoupInvalide(jeu, appel)

\* ---------------------------------------------------------------------- C3
\* C3: after a successful move in cell (r, c), the legal moves are the empty
\* cells of sub-board (r, c) if that sub-board is in progress, and the empty
\* cells of all sub-boards in progress if it is finished.
C3_PropagationContrainte ==
    CoupAccepte =>
        LET r == appel[3]
            c == appel[4]
        IN  ElementsDe(obtenir_coups_valides(jeu)) =
                IF EnCours(jeu, r, c) THEN CasesVides(jeu, {<<r, c>>})
                ELSE CasesVides(jeu, R3 \X R3)

\* C3 witness: a move was sent to a finished sub-board and the legal moves
\* span several sub-boards.
C3_Temoin ==
    /\ CoupAccepte
    /\ ~EnCours(jeu, appel[3], appel[4])
    /\ \E m1, m2 \in ElementsDe(obtenir_coups_valides(jeu)) :
          <<m1[1], m1[2]>> # <<m2[1], m2[2]>>

\* ---------------------------------------------------------------------- C4
\* The 8 alignments of a 3x3 grid, as sets of positions.
Alignements ==
    {{<<i, j>> : j \in R3} : i \in R3} \cup {{<<i, j>> : i \in R3} : j \in R3}
        \cup {{<<i, i>> : i \in R3}, {<<i, 2 - i>> : i \in R3}}
GagneParTous(g, al, s) == \A q \in al : Issue(g, q[1], q[2]) = s
AlignementGagne(g, s) == \E al \in Alignements : GagneParTous(g, al, s)

\* C4: as soon as three aligned sub-boards are all won by the same symbol S
\* the game is over and won by S; the winner of the game is never anything
\* but X or O holding such an alignment (aligned drawn sub-boards win nothing).
C4_VictoireGlobale ==
    /\ \A s \in Joueurs :
          AlignementGagne(jeu, s) => (jeu.jeu_termine /\ jeu.vainqueur = s)
    /\ jeu.vainqueur # None =>
          (jeu.vainqueur \in Joueurs /\ AlignementGagne(jeu, jeu.vainqueur))

\* C4 witness: the move just played completed an alignment of sub-boards
\* won by X, and the game is won by X.
C4_Temoin ==
    /\ CoupAccepte
    /\ AlignementGagne(jeu, "X")
    /\ jeu.vainqueur = "X"

\* ---------------------------------------------------------------------- C5
AucunAlignementGagne(g) == \A s \in Joueurs : ~AlignementGagne(g, s)
UnSousPlateauJouable(g) ==
    \E m \in Coups : EnCours(g, m[1], m[2]) /\ Case(g, m[1], m[2], m[3], m[4]) = " "
NulleDeclaree(g) == g.jeu_termine /\ g.vainqueur = None
ChaqueAlignementContientXetO(g) ==
    \A al \in Alignements :
        /\ \E q \in al : Issue(g, q[1], q[2]) = "X"
        /\ \E q \in al : Issue(g, q[1], q[2]) = "O"

\* C5: when no alignment is won and each of the 8 alignments holds a
\* sub-board won by X and a sub-board won by O, the game is a draw, even
\* with a sub-board still in progress.
C5_NulleAnticipee ==
    (AucunAlignementGagne(jeu) /\ ChaqueAlignementContientXetO(jeu))
        => NulleDeclaree(jeu)

\* C5 witness: such a draw was just declared by a move, and a sub-board in
\* progress still has an empty cell.
C5_Temoin ==
    /\ CoupAccepte
    /\ AucunAlignementGagne(jeu)
    /\ ChaqueAlignementContientXetO(jeu)
    /\ UnSousPlateauJouable(jeu)
    /\ NulleDeclaree(jeu)

\* ---------------------------------------------------------------------- C6
UnSousPlateauEnCours(g) == \E a \in R3, b \in R3 : EnCours(g, a, b)

\* C6 as stated: a drawn sub-board does not close an alignment, so with no
\* alignment won and a sub-board in progress the game is a draw exactly when
\* each alignment holds a sub-board won by X and one won by O.
C6_NulNeFermePas ==
    (AucunAlignementGagne(jeu) /\ UnSousPlateauEnCours(jeu))
        => (NulleDeclaree(jeu) <=> ChaqueAlignementContientXetO(jeu))

\* An alignment is closed for S by a sub-board won by the other symbol or drawn.
FermePour(g, q, s) == Issue(g, q[1], q[2]) \in {autre(s), "DRAW"}
ChaqueAlignementFerme(g) ==
    \A al \in Alignements : \A s \in Joueurs : \E q \in al : FermePour(g, q, s)

\* C6 amended: a drawn sub-board closes an alignment for both symbols; with
\* no alignment won and a sub-board in progress the game is a draw exactly
\* when each alignment holds, for each symbol, a sub-board that is drawn or
\* won by the other symbol.
C6_NulFerme ==
    (AucunAlignementGagne(jeu) /\ UnSousPlateauEnCours(jeu))
        => (NulleDeclaree(jeu) <=> ChaqueAlignementFerme(jeu))

\* C6 witness: a move just ended the game by an anticipated draw in which
\* some alignment is closed only thanks to a drawn sub-board.
C6_Temoin ==
    /\ CoupAccepte
    /\ AucunAlignementGagne(jeu)
    /\ UnSousPlateauEnCours(jeu)
    /\ NulleDeclaree(jeu)
    /\ ~ChaqueAlignementContientXetO(jeu)

\* ---------------------------------------------------------------------- C7
\* A sub-board has a legal cell when its own coup_valide accepts some cell.
UneCaseLegale(g) ==
    \E m \in Coups : PetitPlateau_coup_valide(g.plateaux[m[1]][m[2]], m[3], m[4])

\* C7: the list of legal moves is empty exactly when the game is over or no
\* sub-board has a legal cell; after a win or an anticipated draw that leaves
\* empty cells, the list is empty.
C7_AucunCoupSiTermine ==
    (obtenir_coups_valides(jeu) = << >>)
        <=> (jeu.jeu_termine \/ ~UneCaseLegale(jeu))

\* ---------------------------------------------------------------------- C8
\* Lexicographic order of two moves (4-tuples).
AvantLex(m1, m2) ==
    \E k \in 1 .. 4 : m1[k] < m2[k] /\ \A n \in 1 .. (k - 1) : m1[n] = m2[n]

\* C8: the list of legal moves holds exactly the in-range moves that
\* coup_valide accepts, each once, in lexicographic order (sub-board
\* row-major, then cell row-major).
C8_CoupsValidesOrdonnes ==
    LET coups == obtenir_coups_valides(jeu)
    IN  /\ ElementsDe(coups) =
              {m \in Coups : MorpionUltime_coup_valide(jeu, m[1], m[2], m[3], m[4])}
        /\ \A k \in 1 .. (Len(coups) - 1) : AvantLex(coups[k], coups[k + 1])

\* C8 witness: a move was just played, it imposes a sub-board that has
\* several legal cells, and another sub-board in progress has an empty cell
\* that is not listed.
C8_Temoin ==
    /\ CoupAccepte
    /\ PartieEnCours(jeu)
    /\ jeu.plateau_actif # AucunPlateau
    /\ Len(obtenir_coups_valides(jeu)) >= 2
    /\ CasesVides(jeu, (R3 \X R3) \ {jeu.plateau_actif}) # {}

\* ---------------------------------------------------------------------- C9
\* C9: a cell that holds X or O keeps its value through every call, accepted
\* or rejected; a cell changes only from empty to the symbol of the player
\* whose turn it was.
C9_CasesMonotones ==
    [][ \A a \in R3, b \in R3 :
            \/ jeu'.plateaux[a][b].plateau = jeu.plateaux[a][b].plateau
            \/ \A i \in R3, j \in R3 :
                  LET avant == Case(jeu, a, b, i, j)
                      apres == Case(jeu', a, b, i, j)
                  IN  /\ avant # " " => apres = avant
                      /\ apres # avant =>
                            (avant = " " /\ apres = jeu.joueur_courant)
      ]_vars

\* C9 witness: a call aimed at an occupied cell of the imposed sub-board, in
\* a game in progress, was rejected (the cell was not overwritten).
C9_Temoin ==
    /\ CoupRejete
    /\ PartieEnCours(jeu)
    /\ C1_CaseOccupee(jeu, appel)
    /\ ~C1_SousPlateauTermine(jeu, appel)
    /\ ~C1_HorsPlateauActif(jeu, appel)

\* --------------------------------------------------------------------- C10
\* Every call of the sub-board's own jouer_coup, for every cell index in
\* -1 .. 3 and every symbol, returns False and gives back the same sub-board.
PlacementRefusePartout(p) ==
    \A l \in Indices, c \in Indices, s \in Joueurs :
        LET r == PetitPlateau_jouer_coup(p, l, c, s)
        IN  ~r.ret /\ r.p = p

\* C10: a sub-board whose outcome is won or drawn refuses every placement,
\* and its cells and outcome never change again.
C10_SousPlateauTermineFige ==
    /\ [](\A a \in R3, b \in R3 :
            ~EnCours(jeu, a, b) => PlacementRefusePartout(jeu.plateaux[a][b]))
    /\ [][ \A a \in R3, b \in R3 :
            ~EnCours(jeu, a, b) => jeu'.plateaux[a][b] = jeu.plateaux[a][b] ]_vars

\* C10 witness: in a game in progress with no imposed sub-board, a call
\* aimed at an empty cell of a finished sub-board was rejected.
C10_Temoin ==
    /\ CoupRejete
    /\ PartieEnCours(jeu)
    /\ jeu.plateau_actif = AucunPlateau
    /\ C1_SousPlateauTermine(jeu, appel)
    /\ ~C1_CaseOccupee(jeu, appel)

\* ------------------------------------------------ evaluators at work
\* 18 moves, then X has two winning cells in sub-board (1,0):
\* (1,0) and (2,2), each naming a finished sub-board.
partie_double_X ==
    << <<2,2,0,0>>, <<0,0,0,1>>, <<0,1,0,0>>, <<0,0,1,0>>, <<1,0,1,1>>,
       <<1,1,2,2>>, <<2,2,0,1>>, <<0,1,0,2>>, <<0,2,2,1>>, <<2,1,2,2>>,
       <<2,2,2,0>>, <<2,0,1,0>>, <<1,0,0,0>>, <<0,0,2,2>>, <<2,2,0,2>>,
       <<0,2,1,0>>, <<1,0,1,2>>, <<1,2,1,0>> >>

\* 13 moves, then O has two winning cells in sub-board (2,2):
\* (2,0) and (2,2), each naming a finished sub-board.
partie_double_O ==
    << <<1,0,2,2>>, <<2,2,0,2>>, <<0,2,2,2>>, <<2,2,1,2>>, <<1,2,2,2>>,
       <<2,2,1,1>>, <<1,1,2,1>>, <<2,1,2,0>>, <<2,0,1,1>>, <<1,1,2,0>>,
       <<2,0,0,0>>, <<0,0,2,0>>, <<2,0,2,2>> >>

\* The games whose boards the evaluators and the strategies are given.
parties_evaluees == parties \o << partie_double_X, partie_double_O >>

Cases == {" ", "X", "O"}
Lignes == {<<a, b, c>> : a \in Cases, b \in Cases, c \in Cases}

InitEval ==
    /\ \E n \in DOMAIN parties_evaluees :
          jeu = rejouer(MorpionUltime_reinitialiser, parties_evaluees[n], 1)
    /\ mesure = [fonction |-> "aucune"]
    /\ pc = HorsService
    /\ appel = HorsService
    /\ retour = HorsService
    /\ nb_coups = HorsService
    /\ tas = HorsService
    /\ ia = HorsService

\* One call of evaluer_ligne(ligne, joueur), for a row, a column or a
\* diagonal; a behaviour follows one call of an evaluator.
EvaluerLigne(ligne, joueur) ==
    /\ mesure.fonction = "aucune"
    /\ mesure' = [fonction |-> "evaluer_ligne", ligne |-> ligne,
                  joueur |-> joueur, score |-> evaluer_ligne(ligne, joueur)]
    /\ UNCHANGED <<jeu, pc, appel, retour, nb_coups, tas, ia>>

\* The body of IAFacile.get_move's loop for one legal move mv: the move is
\* played on a copy of the live board and the copy is scored.
EvaluerUltime(k, joueur) ==
    /\ mesure.fonction = "aucune"
    /\ k \in DOMAIN obtenir_coups_valides(jeu)
    /\ LET mv == obtenir_coups_valides(jeu)[k]
           clone == MorpionUltime_jouer_coup(jeu, mv[1], mv[2], mv[3], mv[4]).g
       IN  mesure' = [fonction |-> "evaluer_ultime", coup |-> mv,
                      partie |-> clone, joueur |-> joueur,
                      score |-> evaluer_ultime(clone, joueur)]
    /\ UNCHANGED <<jeu, pc, appel, retour, nb_coups, tas, ia>>

NextEval ==
    \/ \E ligne \in Lignes, joueur \in Joueurs : EvaluerLigne(ligne, joueur)
    \/ \E k \in 1 .. 81, joueur \in Joueurs : EvaluerUltime(k, joueur)

SpecEval == InitEval /\ [][NextEval]_vars

\* ------------------------------------------------------ a board and its clone
\* The source board B is the first MorpionUltime object in memory and its
\* clone C the second.
B == 1
C == 2
\* The games whose board is cloned (every game but the empty one).
parties_clonees == SubSeq(parties_evaluees, 2, Len(parties_evaluees))

InitClone ==
    /\ \E n \in DOMAIN parties_clonees :
          tas = MorpionUltime_en_memoire(
                    rejouer(MorpionUltime_reinitialiser, parties_clonees[n], 1))
    /\ pc = "source"
    /\ appel = << >>
    /\ retour = FALSE
    /\ nb_coups = 0
    /\ jeu = HorsService
    /\ ia = HorsService
    /\ mesure = HorsService

\* clone = partie.dupliquer()
Dupliquer ==
    /\ pc = "source"
    /\ tas' = MorpionUltime_dupliquer(tas, B).tas
    /\ pc' = "clone"
    /\ UNCHANGED <<appel, retour, nb_coups, jeu, ia, mesure>>

\* x.jouer_coup(*m), for x the source or its clone and m a legal move of x.
JouerSur(x) ==
    /\ pc = "clone"
    /\ nb_coups < MaxCoupsClone
    /\ \E m \in ElementsDe(obtenir_coups_valides(MorpionUltime_valeur(tas, x))) :
          LET r == MorpionUltime_jouer_coup_en_place(tas, x, m[1], m[2], m[3], m[4])
          IN  /\ tas' = r.tas
              /\ retour' = r.ret
              /\ appel' = <<x, m>>
    /\ nb_coups' = nb_coups + 1
    /\ UNCHANGED <<pc, jeu, ia, mesure>>

NextClone ==
    \/ Dupliquer
    \/ \E x \in {B, C} : JouerSur(x)

SpecClone == InitClone /\ [][NextClone]_vars

\* --------------------------------------------------------------------- C11
\* The two boards, as values.
ValeurDe(x) == MorpionUltime_valeur(tas, x)
ValeurApresDe(x) == MorpionUltime_valeur(tas', x)
\* Equal in all cells, sub-board outcomes, constraint, player and outcome.
EgauxEnTout(g, h) ==
    /\ \A a \in R3, b \in R3 :
          /\ \A i \in R3, j \in R3 : Case(g, a, b, i, j) = Case(h, a, b, i, j)
          /\ Issue(g, a, b) = Issue(h, a, b)
          /\ g.plateaux[a][b].jeu_termine = h.plateaux[a][b].jeu_termine
    /\ g.plateau_actif = h.plateau_actif
    /\ g.joueur_courant = h.joueur_courant
    /\ g.jeu_termine = h.jeu_termine
    /\ g.vainqueur = h.vainqueur

\* C11: the clone C of a board B equals B in every field when it is made,
\* and making it leaves B as it was; after that every move played on C
\* leaves B unchanged and every move played on B leaves C unchanged.
C11_CloneIsole ==
    [][ /\ (pc = "source" /\ pc' = "clone") =>
              /\ EgauxEnTout(ValeurApresDe(C), ValeurDe(B))
              /\ EgauxEnTout(ValeurApresDe(B), ValeurDe(B))
        /\ (pc = "clone" /\ pc' = "clone") =>
              \A x \in {B, C} :
                  appel'[1] # x => EgauxEnTout(ValeurApresDe(x), ValeurDe(x)) ]_vars

\* C11 witness: moves were accepted on both boards, the last one on B, and
\* the two boards differ.
C11_Temoin ==
    /\ pc = "clone"
    /\ nb_coups = 2
    /\ appel # << >>
    /\ appel[1] = B
    /\ retour
    /\ ValeurDe(B) # ValeurDe(C)
    /\ \E m \in Coups :
          /\ Case(ValeurDe(C), m[1], m[2], m[3], m[4]) # " "
          /\ Case(ValeurDe(B), m[1], m[2], m[3], m[4]) = " "

\* ------------------------------------------------------ strategies at work
\* 52 moves, then X to move anywhere with three legal moves, all in
\* sub-board (2,0); (2,0,1,0) wins that sub-board and with it the game.
partie_gain_refuse ==
    << <<2,2,0,2>>, <<0,2,2,2>>, <<2,2,0,0>>, <<0,0,2,2>>, <<2,2,2,0>>,
       <<2,0,2,2>>, <<2,2,0,1>>, <<0,1,2,1>>, <<2,1,0,2>>, <<0,2,2,0>>,
       <<2,0,0,0>>, <<0,0,0,2>>, <<0,2,1,1>>, <<1,1,1,1>>, <<1,1,0,2>>,
       <<0,2,1,0>>, <<1,0,0,1>>, <<0,1,1,1>>, <<1,1,2,2>>, <<2,1,2,2>>,
       <<1,1,0,0>>, <<0,0,0,0>>, <<0,0,1,1>>, <<1,1,1,0>>, <<1,0,2,1>>,
       <<2,1,2,0>>, <<2,0,2,1>>, <<2,1,1,0>>, <<1,0,0,0>>, <<0,0,2,0>>,
       <<2,0,2,0>>, <<2,0,1,1>>, <<1,1,0,1>>, <<0,1,1,2>>, <<1,2,2,2>>,
       <<0,1,0,0>>, <<0,0,0,1>>, <<0,1,2,0>>, <<2,0,1,2>>, <<1,2,1,0>>,
       <<1,0,1,1>>, <<0,1,1,0>>, <<0,2,0,0>>, <<0,0,2,1>>, <<2,1,1,2>>,
       <<1,2,1,1>>, <<0,2,2,1>>, <<2,1,2,1>>, <<0,2,1,2>>, <<1,2,0,2>>,
       <<0,2,0,1>>, <<1,2,1,2>> >>

\* The games whose board a strategy is asked a move for: games in progress
\* near their end, and finished games with and without an empty cell in a
\* sub-board in progress.
parties_ia ==
    << partie_antic_xo, partie_antic_draw, partie_triple_draw_mid,
       partie_exhaust, partie_win_ninth, partie_gain_refuse,
       Append(partie_exhaust, <<2, 1, 0, 0>>),
       Append(partie_win_ninth, <<2, 0, 0, 1>>) >> \o parties_finies

Classes == {"IAFacile", "IAMoyenne", "IADifficile"}
\* The strategy object of a class, playing symbol joueur.
Strategie(classe, joueur) ==
    IF classe = "IAFacile" THEN IAFacile(joueur)
    ELSE IF classe = "IAMoyenne" THEN IAMoyenne(joueur)
    ELSE IADifficile(joueur)
\* The driver's strategy object for the player to move, before its call.
EnAttente(classe, joueur) ==
    [ objet |-> Strategie(classe, joueur), coup |-> AucunCoup,
      exception |-> "aucune", chemin |-> "aucun", meilleurs |-> << >>,
      intacte |-> TRUE ]

InitIA ==
    /\ \E n \in DOMAIN parties_ia, classe \in Classes :
          LET g == rejouer(MorpionUltime_reinitialiser, parties_ia[n], 1)
          IN  /\ tas = MorpionUltime_en_memoire(g)
              /\ ia = EnAttente(classe, g.joueur_courant)
    /\ pc = "appel"
    /\ retour = FALSE
    /\ nb_coups = 0
    /\ appel = HorsService
    /\ jeu = HorsService
    /\ mesure = HorsService

\* coup = ia.get_move(jeu), for an IAFacile.
IAFacile_GetMove ==
    /\ pc = "appel"
    /\ ia.objet.classe = "IAFacile"
    /\ nb_coups < MaxAppelsIA
    /\ \E r \in {IAFacile_get_move(ia.objet, tas, B)} :
           /\ tas' = r.tas
           /\ ia' = [ objet |-> [ia.objet EXCEPT !.score_dernier_coup = r.score],
                      coup |-> r.coup, exception |-> r.exception,
                      chemin |-> "recherche", meilleurs |-> << >>,
                      intacte |-> TRUE ]
    /\ pc' = "rendu"
    /\ nb_coups' = nb_coups + 1
    /\ UNCHANGED <<retour, appel, jeu, mesure>>

\* coup = ia.get_move(jeu), for an IAMoyenne: random.random() falls under
\* taux_erreur_strategique or not, and random.choice draws an index.
IAMoyenne_GetMove ==
    /\ pc = "appel"
    /\ ia.objet.classe = "IAMoyenne"
    /\ nb_coups < MaxAppelsIA
    /\ \/ \E n \in tirages(obtenir_coups_valides(MorpionUltime_valeur(tas, B))) :
             \E r \in {IAMoyenne_get_move_erreur(ia.objet, tas, B, n)} :
                 /\ tas' = r.tas
                 /\ ia' = [ objet |-> [ia.objet EXCEPT
                                         !.score_dernier_coup = r.score],
                            coup |-> r.coup, exception |-> r.exception,
                            chemin |-> "erreur", meilleurs |-> << >>,
                            intacte |-> r.intacte ]
       \/ \E r \in {IAMoyenne_get_move_recherche(ia.objet, tas, B)} :
              \E n \in tirages(r.meilleurs) :
                 /\ tas' = r.tas
                 /\ ia' = [ objet |-> [ia.objet EXCEPT
                                         !.score_dernier_coup = r.score],
                            coup |-> random_choice(r.meilleurs, n).ret,
                            exception |->
                                random_choice(r.meilleurs, n).exception,
                            chemin |-> "recherche",
                            meilleurs |-> r.meilleurs, intacte |-> r.intacte ]
    /\ pc' = "rendu"
    /\ nb_coups' = nb_coups + 1
    /\ UNCHANGED <<retour, appel, jeu, mesure>>

\* coup = ia.get_move(jeu), for an IADifficile.
IADifficile_GetMove ==
    /\ pc = "appel"
    /\ ia.objet.classe = "IADifficile"
    /\ nb_coups < MaxAppelsIA
    /\ \E r \in {IADifficile_get_move(ia.objet, tas, B)} :
           /\ tas' = r.tas
           /\ ia' = [ objet |-> [ia.objet EXCEPT !.score_dernier_coup = r.score],
                      coup |-> r.coup, exception |-> r.exception,
                      chemin |-> "recherche", meilleurs |-> << >>,
                      intacte |-> r.intacte ]
    /\ pc' = "rendu"
    /\ nb_coups' = nb_coups + 1
    /\ UNCHANGED <<retour, appel, jeu, mesure>>

\* jeu.jouer_coup(*coup): the driver plays the move the strategy returned,
\* and the strategy of the player now to move is next.
JouerCoupRendu ==
    /\ pc = "rendu"
    /\ ia.exception = "aucune"
    /\ ia.coup # AucunCoup
    /\ \E r \in {MorpionUltime_jouer_coup_en_place(
                    tas, B, ia.coup[1], ia.coup[2], ia.coup[3], ia.coup[4])} :
           /\ tas' = r.tas
           /\ retour' = r.ret
           /\ ia' = EnAttente(ia.objet.classe,
                              MorpionUltime_valeur(r.tas, B).joueur_courant)
    /\ pc' = "appel"
    /\ UNCHANGED <<nb_coups, appel, jeu, mesure>>

NextIA ==
    \/ IAFacile_GetMove
    \/ IAMoyenne_GetMove
    \/ IADifficile_GetMove
    \/ JouerCoupRendu

SpecIA == InitIA /\ [][NextIA]_vars

\* --------------------------------------------------------------------- C18
\* 10 ** n for the n a 3-cell line allows.
DixPuissance == [n \in 1 .. 3 |-> IF n = 1 THEN 10 ELSE IF n = 2 THEN 100 ELSE 1000]
NbCases(ligne, s) == Cardinality({k \in 1 .. 3 : ligne[k] = s})
ScoreDeLigneAttendu(ligne, P) ==
    LET Q == autre(P)
        np == NbCases(ligne, P)
        nq == NbCases(ligne, Q)
    IN  IF np > 0 /\ nq > 0 THEN 0
        ELSE IF np > 0 THEN DixPuissance[np]
        ELSE IF nq > 0 THEN 0 - DixPuissance[nq]
        ELSE 0

\* C18: the score evaluer_ligne returned for a 3-cell line and perspective
\* P is 0 if both symbols or none occur, 10^(cells of P) if only P occurs,
\* -(10^(cells of Q)) if only the opponent Q occurs; the empty line scores 0,
\* [X,X,Empty] scores 100 for X and -100 for O, [X,O,Empty] scores 0.
C18_ScoreDeLigne ==
    mesure.fonction = "evaluer_ligne" =>
        /\ mesure.score = ScoreDeLigneAttendu(mesure.ligne, mesure.joueur)
        /\ mesure.ligne = <<" ", " ", " ">> => mesure.score = 0
        /\ mesure.ligne = <<"X", "X", " ">> =>
              mesure.score = IF mesure.joueur = "X" THEN 100 ELSE -100
        /\ mesure.ligne = <<"X", "O", " ">> => mesure.score = 0

\* C18 witness: evaluer_ligne has scored [X,X,Empty] for O, and returned -100.
C18_Temoin ==
    /\ mesure.fonction = "evaluer_ligne"
    /\ mesure.ligne = <<"X", "X", " ">>
    /\ mesure.joueur = "O"
    /\ mesure.score = -100

\* --------------------------------------------------------------------- C19
\* Sub-board (a, b) is won by the same symbol in g and in h.
GagneDesDeuxCotes(g, h, a, b) ==
    /\ Issue(g, a, b) \in Joueurs
    /\ Issue(h, a, b) = Issue(g, a, b)
    /\ h.plateaux[a][b].jeu_termine = g.plateaux[a][b].jeu_termine
\* g and h differ only in the cells of sub-boards won by the same symbol
\* in both.
NeDifferentQueParCasesGagnees(g, h) ==
    /\ g.joueur_courant = h.joueur_courant
    /\ g.plateau_actif = h.plateau_actif
    /\ g.jeu_termine = h.jeu_termine
    /\ g.vainqueur = h.vainqueur
    /\ \A a \in R3, b \in R3 :
          \/ g.plateaux[a][b] = h.plateaux[a][b]
          \/ GagneDesDeuxCotes(g, h, a, b)
\* The boards the strategy scores next to mesure.partie: the live board
\* after each of its legal moves.
PartiesVoisines ==
    {MorpionUltime_jouer_coup(jeu, m[1], m[2], m[3], m[4]).g :
        m \in ElementsDe(obtenir_coups_valides(jeu))}
NbGagnes(g, s) ==
    Cardinality({q \in R3 \X R3 : Issue(g, q[1], q[2]) = s})
\* What the score owes to the sub-boards not won and to the virtual grid.
ResteDuScore(g, P) ==
    LET q(k) == cellules_3x3[k]
        lignes == lignes_de(pg(g))
    IN  somme([k \in 1 .. 9 |->
                  IF Issue(g, q(k)[1], q(k)[2]) \in Joueurs THEN 0
                  ELSE evaluer_sous_plateau(g.plateaux[q(k)[1]][q(k)[2]], P)], 9)
        + somme([k \in 1 .. 8 |-> 10 * ScoreDeLigneAttendu(lignes[k], P)], 8)

\* C19: in the score evaluer_ultime returned for perspective P, each
\* sub-board won by P counts for exactly +10000 and each sub-board won by
\* the opponent for exactly -10000, whatever its cells: a board that differs
\* from the scored one only in the cells of sub-boards won by the same symbol
\* in both has the same score.
C19_PoidsSousPlateauGagne ==
    mesure.fonction = "evaluer_ultime" =>
        /\ mesure.score =
              10000 * NbGagnes(mesure.partie, mesure.joueur)
              - 10000 * NbGagnes(mesure.partie, autre(mesure.joueur))
              + ResteDuScore(mesure.partie, mesure.joueur)
        /\ \A h \in PartiesVoisines :
              NeDifferentQueParCasesGagnees(mesure.partie, h) =>
                  evaluer_ultime(h, mesure.joueur) = mesure.score

\* C19 witness: the scored board has a sub-board won by X, and another
\* legal move of the live board wins the same sub-board for X with other
\* cells and changes nothing else; both boards have the score returned.
C19_Temoin ==
    /\ mesure.fonction = "evaluer_ultime"
    /\ \E h \in PartiesVoisines :
          /\ h # mesure.partie
          /\ NeDifferentQueParCasesGagnees(mesure.partie, h)
          /\ \E a \in R3, b \in R3 :
                /\ h.plateaux[a][b].plateau # mesure.partie.plateaux[a][b].plateau
                /\ Issue(h, a, b) = "X"
          /\ evaluer_ultime(h, mesure.joueur) = mesure.score

\* --------------------------------------------------------------------- C20
\* C20 as stated: obtenir_vainqueur answers None only while the game is in
\* progress (a drawn game would answer a value of its own).
C20_NoneSeulementEnCours ==
    MorpionUltime_obtenir_vainqueur(jeu) = None => PartieEnCours(jeu)

\* C20: obtenir_vainqueur answers the symbol holding an alignment of won
\* sub-boards when there is one, and None otherwise, for a drawn game as for
\* a game in progress: the two differ by jeu_termine, not by the answer.
C20_VainqueurOuNone ==
    /\ \A s \in Joueurs :
          AlignementGagne(jeu, s) => MorpionUltime_obtenir_vainqueur(jeu) = s
    /\ AucunAlignementGagne(jeu) => MorpionUltime_obtenir_vainqueur(jeu) = None

\* C20 witness: a move just ended the game without an alignment, and
\* obtenir_vainqueur answers None as it did before the move.
C20_Temoin ==
    /\ CoupAccepte
    /\ jeu.jeu_termine
    /\ AucunAlignementGagne(jeu)
    /\ MorpionUltime_obtenir_vainqueur(jeu) = None

\* --------------------------------------------------------------------- C12
\* A step that is a call of get_move.
AppelDeGetMove == pc = "appel" /\ pc' = "rendu"
\* The legal moves of the board the strategy is asked a move for.
CoupsDuPlateau == obtenir_coups_valides(MorpionUltime_valeur(tas, B))

\* C12: a call of get_move of any of the three strategies leaves the board
\* it was given with the same value in every field, and every object in
\* memory as it was; during the search of IAMoyenne and IADifficile the
\* board of every node still has its value after each of its children was
\* explored on a copy (intacte).
C12_PlateauInchange ==
    [][ AppelDeGetMove =>
          /\ MorpionUltime_valeur(tas', B) = MorpionUltime_valeur(tas, B)
          /\ tas' = tas
          /\ ia'.intacte ]_vars

\* A search of each strategy has returned a move on a board with several
\* legal moves.
C12_Temoin ==
    /\ pc = "rendu"
    /\ ia.objet.classe = "IADifficile"
    /\ ia.chemin = "recherche"
    /\ ia.coup # AucunCoup
    /\ Len(CoupsDuPlateau) >= 3

\* --------------------------------------------------------------------- C13
\* C13: when the board given to get_move has no legal move, the call has
\* returned None and raised nothing, whatever the strategy and, for
\* IAMoyenne, whatever the path (random error or search).
C13_NoneSansFaute ==
    (pc = "rendu" /\ CoupsDuPlateau = << >>) =>
        (ia.exception = "aucune" /\ ia.coup = AucunCoup)

\* --------------------------------------------------------------------- C14
\* A step that is the driver's jouer_coup of the move get_move returned.
CoupRenduJoue == pc = "rendu" /\ pc' = "appel"

\* C14: a call of get_move on a board with at least one legal move raises
\* nothing and returns a member of the board's legal moves (so None is
\* returned only when there is no legal move), whatever the strategy and
\* its path; and when the board is not finished, jouer_coup of the move
\* returned succeeds.
C14_CoupRenduLegal ==
    [][ /\ (AppelDeGetMove /\ CoupsDuPlateau # << >>) =>
              /\ ia'.exception = "aucune"
              /\ ia'.coup \in ElementsDe(CoupsDuPlateau)
        /\ (CoupRenduJoue /\ ~MorpionUltime_valeur(tas, B).jeu_termine) =>
              retour' ]_vars

\* The move an IAFacile returned was played on a board in progress, with
\* success.
C14_Temoin ==
    /\ pc = "appel"
    /\ nb_coups >= 1
    /\ retour
    /\ ia.objet.classe = "IAFacile"

\* --------------------------------------------------------------------- C15
\* The evaluer_ultime score, for joueur, of the board that results from
\* move mv on board g.
ScoreApres(g, mv, joueur) ==
    evaluer_ultime(MorpionUltime_jouer_coup(g, mv[1], mv[2], mv[3], mv[4]).g,
                   joueur)
\* The scores of the legal moves of g, in their order.
ScoresDesCoups(g, joueur) ==
    [k \in DOMAIN obtenir_coups_valides(g) |->
        ScoreApres(g, obtenir_coups_valides(g)[k], joueur)]
\* The first index of a maximum of a non-empty sequence of scores.
PremierMaximum(scores) ==
    CHOOSE k \in DOMAIN scores :
        /\ \A j \in DOMAIN scores : scores[j] <= scores[k]
        /\ \A j \in 1 .. k - 1 : scores[j] < scores[k]

\* C15: a call of IAFacile.get_move on a board with legal moves returns the
\* earliest legal move whose resulting board has the greatest evaluer_ultime
\* score for the strategy's symbol, and leaves that score in
\* score_dernier_coup; the move depends on the board and the symbol only.
C15_PremierMeilleurCoup ==
    [][ (AppelDeGetMove /\ ia.objet.classe = "IAFacile"
                        /\ CoupsDuPlateau # << >>) =>
          \E scores \in {ScoresDesCoups(MorpionUltime_valeur(tas, B),
                                        ia.objet.joueur)} :
              /\ ia'.coup = CoupsDuPlateau[PremierMaximum(scores)]
              /\ ia'.objet.score_dernier_coup =
                     scores[PremierMaximum(scores)] ]_vars

\* An IAFacile returned a move on a board where a later legal move has the
\* same score as the move returned.
C15_Temoin ==
    /\ pc = "rendu"
    /\ ia.objet.classe = "IAFacile"
    /\ ia.coup # AucunCoup
    /\ \E scores \in {ScoresDesCoups(MorpionUltime_valeur(tas, B),
                                     ia.objet.joueur)} :
          \E j, k \in DOMAIN scores :
              /\ j < k
              /\ CoupsDuPlateau[j] = ia.coup
              /\ scores[k] = scores[j]

\* --------------------------------------------------------------------- C16
\* The board that results from move mv on board g.
Apres(g, mv) == MorpionUltime_jouer_coup(g, mv[1], mv[2], mv[3], mv[4]).g
\* The greatest and the least member of a set of scores.
Maximum(S) == CHOOSE x \in S : \A y \in S : y <= x
Minimum(S) == CHOOSE x \in S : \A y \in S : x <= y

RECURSIVE ValeurMinimax(_, _, _, _)
\* The unpruned minimax value of board g at depth profondeur for joueur:
\* evaluer_ultime at a finished board or at depth 3, otherwise the
\* greatest (own ply) or least (opponent's ply) value of the boards the
\* legal moves lead to.
ValeurMinimax(g, joueur, profondeur, est_max) ==
    IF g.jeu_termine \/ profondeur = 3 THEN evaluer_ultime(g, joueur)
    ELSE \* a board in progress has a legal move
         CHOOSE v \in { IF est_max THEN Maximum(vals) ELSE Minimum(vals) :
                        vals \in {{ ValeurMinimax(Apres(g, mv), joueur,
                                                  profondeur + 1, ~est_max) :
                                    mv \in ElementsDe(obtenir_coups_valides(g)) }} } :
             TRUE

\* The legal moves of g whose minimax value, as root moves of joueur, is
\* the greatest.
MeilleursCoups(g, joueur) ==
    CHOOSE S \in { { mv \in DOMAIN vals : vals[mv] = Maximum({vals[m] : m \in DOMAIN vals}) } :
                   vals \in {[mv \in ElementsDe(obtenir_coups_valides(g)) |->
                                ValeurMinimax(Apres(g, mv), joueur, 1, FALSE)]} } :
        TRUE

\* C16: a call of IAMoyenne.get_move on a board with legal moves, by its
\* search path, returns one of the root moves whose depth-3 unpruned
\* minimax value (evaluer_ultime for the strategy's symbol at finished
\* boards and at depth 3, min at the opponent's plies, max at its own) is
\* the greatest, and the list random.choice draws the move from holds
\* exactly those moves, so each of them can be returned; by its
\* random-error path it returns a legal move.
C16_CoupsPossibles ==
    [][ (AppelDeGetMove /\ ia.objet.classe = "IAMoyenne"
                        /\ CoupsDuPlateau # << >>) =>
          \E meilleurs \in {MeilleursCoups(MorpionUltime_valeur(tas, B),
                                           ia.objet.joueur)} :
              /\ ia'.chemin \in {"recherche", "erreur"}
              /\ ia'.chemin = "recherche" =>
                    /\ ia'.coup \in meilleurs
                    /\ ElementsDe(ia'.meilleurs) = meilleurs
              /\ ia'.chemin = "erreur" =>
                    ia'.coup \in ElementsDe(CoupsDuPlateau) ]_vars

\* The search path of an IAMoyenne returned a move that is not the first
\* of several best moves, on a board with a legal move that is not best.
C16_Temoin ==
    /\ pc = "rendu"
    /\ ia.objet.classe = "IAMoyenne"
    /\ ia.chemin = "recherche"
    /\ Len(ia.meilleurs) >= 2
    /\ Len(ia.meilleurs) < Len(CoupsDuPlateau)
    /\ ia.coup # ia.meilleurs[1]
    /\ ia.coup \in MeilleursCoups(MorpionUltime_valeur(tas, B), ia.objet.joueur)

\* --------------------------------------------------------------------- C17
\* Move mv on board g wins its sub-board for symbol s, and the sub-board is
\* still won by s after any legal reply.
GagneUnSousPlateau(g, mv, s) ==
    /\ g.plateaux[mv[1]][mv[2]].vainqueur = None
    /\ \E h \in {Apres(g, mv)} :
          /\ h.plateaux[mv[1]][mv[2]].vainqueur = s
          /\ \A reponse \in ElementsDe(obtenir_coups_valides(h)) :
                Apres(h, reponse).plateaux[mv[1]][mv[2]].vainqueur = s
\* The legal moves of g that win a sub-board for s.
CoupsGagnants(g, s) ==
    { mv \in ElementsDe(obtenir_coups_valides(g)) : GagneUnSousPlateau(g, mv, s) }

\* C17: when IADifficile.get_move has been called on a board in progress,
\* for the player to move, and exactly one legal move wins a sub-board for
\* that player at once, the move returned is that move.
C17_CoupTactique ==
    (pc = "rendu" /\ ia.objet.classe = "IADifficile") =>
        \E g \in {MorpionUltime_valeur(tas, B)} :
            \E gagnants \in {CoupsGagnants(g, ia.objet.joueur)} :
                (/\ ~g.jeu_termine
                 /\ g.joueur_courant = ia.objet.joueur
                 /\ Cardinality(gagnants) = 1) => ia.coup \in gagnants

\* --------------------------------------------------------------------- C21
\* The sub-board a specific plateau_actif names.
SousPlateauImpose(g) == g.plateaux[g.plateau_actif[1]][g.plateau_actif[2]]

\* C21: plateau_actif, when it is not None, names a sub-board that is not
\* finished; and after a successful move in cell (r, c) it is None exactly
\* when sub-board (r, c) is finished, and (r, c) otherwise.
C21_ContrainteActive ==
    /\ jeu.plateau_actif # AucunPlateau =>
          (~SousPlateauImpose(jeu).jeu_termine
           /\ SousPlateauImpose(jeu).vainqueur = None)
    /\ CoupAccepte =>
          /\ jeu.plateau_actif = AucunPlateau <=>
                jeu.plateaux[appel[3]][appel[4]].jeu_termine
          /\ jeu.plateau_actif # AucunPlateau =>
                jeu.plateau_actif = <<appel[3], appel[4]>>

\* C21 witness: a move just sent the opponent to a finished sub-board, the
\* game goes on and the next move is free.
C21_Temoin ==
    /\ CoupAccepte
    /\ ~jeu.jeu_termine
    /\ jeu.plateaux[appel[3]][appel[4]].jeu_termine
    /\ jeu.plateau_actif = AucunPlateau

\* --------------------------------------------------------------------- C22
\* C22: a successful move that finishes the last sub-board in progress ends
\* the game, won by S when an alignment of sub-boards won by S stands (the
\* lines are tested before exhaustion) and drawn only when no alignment is
\* won; and a draw without all nine sub-boards finished is never an
\* exhaustion draw: a finished game without winner has no alignment won.
C22_VictoireAvantEpuisement ==
    [][ /\ (UnAppelARendu /\ retour' /\ UnSousPlateauEnCours(jeu)
              /\ ~UnSousPlateauEnCours(jeu'))
           => /\ jeu'.jeu_termine
              /\ \A s \in Joueurs :
                    AlignementGagne(jeu', s) => jeu'.vainqueur = s
              /\ AucunAlignementGagne(jeu') <=> jeu'.vainqueur = None
        /\ NulleDeclaree(jeu') => AucunAlignementGagne(jeu') ]_vars

\* C22 witness: the move just played finished the ninth sub-board, an
\* alignment of sub-boards is won, and the game is won, not drawn.
C22_Temoin ==
    /\ CoupAccepte
    /\ ~UnSousPlateauEnCours(jeu)
    /\ \E s \in Joueurs : AlignementGagne(jeu, s) /\ jeu.vainqueur = s
    /\ jeu.plateaux[appel[1]][appel[2]].jeu_termine

\* --------------------------------------------------------------------- C23
\* C23: a successful move places the symbol of the player to move, and
\* afterwards the player to move is the mover's opponent exactly when the
\* game is still in progress; whenever the game is won by S, the player to
\* move is S (the winner made the last move and the turn did not pass).
C23_TourDeJeu ==
    /\ [](jeu.vainqueur \in Joueurs => jeu.joueur_courant = jeu.vainqueur)
    /\ [][ (UnAppelARendu /\ retour')
             => /\ Case(jeu', appel'[1], appel'[2], appel'[3], appel'[4])
                      = jeu.joueur_courant
                /\ (jeu'.joueur_courant = autre(jeu.joueur_courant))
                      <=> ~jeu'.jeu_termine
                /\ jeu'.jeu_termine => jeu'.joueur_courant = jeu.joueur_courant
          ]_vars

\* C23 witness: O just won the game by its move and is still the player to
\* move.
C23_Temoin ==
    /\ CoupAccepte
    /\ jeu.vainqueur = "O"
    /\ jeu.joueur_courant = "O"
    /\ Case(jeu, appel[1], appel[2], appel[3], appel[4]) = "O"

\* --------------------------------------------------------------------- C25
\* C25: no stuck state: in every reachable state where the game is in
\* progress, obtenir_coups_valides lists at least one move (a specific
\* plateau_actif never names a finished sub-board, and a game whose nine
\* sub-boards are finished is over).
C25_JamaisBloque ==
    PartieEnCours(jeu) =>
        /\ obtenir_coups_valides(jeu) # << >>
        /\ UnSousPlateauJouable(jeu)

\* C25 witness: the move just played sent the opponent to a finished
\* sub-board; the game goes on and moves are listed, all of them elsewhere.
C25_Temoin ==
    /\ CoupAccepte
    /\ PartieEnCours(jeu)
    /\ ~EnCours(jeu, appel[3], appel[4])
    /\ obtenir_coups_valides(jeu) # << >>
    /\ \A m \in ElementsDe(obtenir_coups_valides(jeu)) :
          <<m[1], m[2]>> # <<appel[3], appel[4]>>

\* --------------------------------------------------------------------- C27
\* The number of cells of the 81 holding symbol s.
NbSymboles(g, s) ==
    Cardinality({m \in Coups : Case(g, m[1], m[2], m[3], m[4]) = s})

\* C27: in every reachable state the board holds as many X as O or one X
\* more, and while the game is in progress the player to move is X exactly
\* when the two counts are equal (X moves first and the turns alternate).
C27_Alternance ==
    /\ NbSymboles(jeu, "X") - NbSymboles(jeu, "O") \in {0, 1}
    /\ PartieEnCours(jeu) =>
          (jeu.joueur_courant = "X"
              <=> NbSymboles(jeu, "X") = NbSymboles(jeu, "O"))

\* C27 witness: X just moved, the game goes on, the board holds one X more
\* than O and O is to move.
C27_Temoin ==
    /\ CoupAccepte
    /\ PartieEnCours(jeu)
    /\ Case(jeu, appel[1], appel[2], appel[3], appel[4]) = "X"
    /\ NbSymboles(jeu, "X") = NbSymboles(jeu, "O") + 1
    /\ jeu.joueur_courant = "O"

\* --------------------------------------------------------------------- C28
\* Sub-board p holds three s on the cells of alignment al.
TroisAlignes(p, al, s) == \A q \in al : p.plateau[q[1]][q[2]] = s
ContientUneLigne(p, s) == \E al \in Alignements : TroisAlignes(p, al, s)
\* The outcome the cells of a sub-board determine.
IssueDesCases(p) ==
    IF ContientUneLigne(p, "X") THEN "X"
    ELSE IF ContientUneLigne(p, "O") THEN "O"
    ELSE IF est_nul(p) THEN "DRAW"
    ELSE None

\* C28: in every reachable state each sub-board's stored outcome is the one
\* its cells determine: won by S exactly when it holds three S in a line,
\* drawn exactly when it is full without such a line, in progress otherwise
\* (jeu_termine set exactly when the outcome is not None); and no sub-board
\* holds a line of X together with a line of O.
C28_IssueDuSousPlateau ==
    \A a \in R3, b \in R3 :
        LET p == jeu.plateaux[a][b]
        IN  /\ p.vainqueur = IssueDesCases(p)
            /\ p.jeu_termine <=> p.vainqueur # None
            /\ ~(ContientUneLigne(p, "X") /\ ContientUneLigne(p, "O"))

\* C28 witness: the move just played completed a diagonal of the mover's
\* symbol in its sub-board, and that sub-board is won by the mover.
C28_Temoin ==
    /\ CoupAccepte
    /\ LET p == jeu.plateaux[appel[1]][appel[2]]
           s == p.plateau[appel[3]][appel[4]]
       IN  /\ p.vainqueur = s
           /\ \E al \in {{<<i, i>> : i \in R3}, {<<i, 2 - i>> : i \in R3}} :
                 /\ <<appel[3], appel[4]>> \in al
                 /\ TroisAlignes(p, al, s)
           /\ ~\E i \in R3 : \/ \A j \in R3 : p.plateau[i][j] = s
                             \/ \A j \in R3 : p.plateau[j][i] = s

\* --------------------------------------------------------------------- C29
\* The board with its stored global outcome erased.
SansIssue(g) == [g EXCEPT !.jeu_termine = FALSE, !.vainqueur = None]

\* C29: in every reachable state the stored global outcome is the one the
\* outcome algorithm computes from the current outcomes of the sub-boards;
\* the game is won by S exactly when three aligned sub-boards are won by S,
\* it is over without winner exactly when no alignment is won and either the
\* nine sub-boards are finished or every alignment is closed for both
\* symbols; and never are alignments won by X and by O together.
C29_IssueGlobale ==
    /\ mettre_a_jour_etat_global(SansIssue(jeu)) = jeu
    /\ jeu.vainqueur \in Joueurs \cup {None}
    /\ jeu.vainqueur # None => jeu.jeu_termine
    /\ \A s \in Joueurs : jeu.vainqueur = s <=> AlignementGagne(jeu, s)
    /\ NulleDeclaree(jeu) <=>
          /\ AucunAlignementGagne(jeu)
          /\ ~UnSousPlateauEnCours(jeu) \/ ChaqueAlignementFerme(jeu)
    /\ ~(AlignementGagne(jeu, "X") /\ AlignementGagne(jeu, "O"))

\* C29 witness: the move just played finished the ninth sub-board with no
\* alignment won, and the stored outcome is the draw the algorithm computes.
C29_Temoin ==
    /\ CoupAccepte
    /\ ~UnSousPlateauEnCours(jeu)
    /\ AucunAlignementGagne(jeu)
    /\ NulleDeclaree(jeu)
    /\ mettre_a_jour_etat_global(SansIssue(jeu)) = jeu

\* --------------------------------------------------------------------- C30
\* What sub-board (a, b) adds to evaluer_ultime's score: the score of the
\* board less the score of the same board with sub-board (a, b) emptied (an
\* empty sub-board adds 0 and is a blank of the virtual grid, as a drawn one).
ApportDuSousPlateau(partie, a, b, joueur) ==
    evaluer_ultime(partie, joueur)
        - evaluer_ultime([partie EXCEPT !.plateaux[a][b] =
                                            PetitPlateau_reinitialiser], joueur)

\* C30 as stated: when evaluer_ultime has scored a board, each drawn
\* sub-board of that board has added 0 to the score returned (its centre
\* bonus plus its 8 line scores), for the player scored and for the opponent.
C30_NulContribueZero ==
    mesure.fonction = "evaluer_ultime" =>
        \A a \in R3, b \in R3 :
            mesure.partie.plateaux[a][b].vainqueur = "DRAW" =>
                /\ mesure.score - evaluer_ultime(
                       [mesure.partie EXCEPT !.plateaux[a][b] =
                            PetitPlateau_reinitialiser], mesure.joueur) = 0
                /\ \A s \in Joueurs :
                       ApportDuSousPlateau(mesure.partie, a, b, s) = 0

\* --------------------------------------------------------------------- C24
RECURSIVE ValeurSansElagage(_, _, _, _)
\* The minimax value of board g at depth profondeur for joueur, every move
\* explored: evaluer_difficile at a finished board or at depth 4, otherwise
\* the greatest (own ply) or least (opponent's ply) value of the boards the
\* legal moves lead to.
ValeurSansElagage(g, joueur, profondeur, est_max) ==
    IF g.jeu_termine \/ profondeur = 4 THEN evaluer_difficile(g, joueur)
    ELSE \* a board in progress has a legal move
         CHOOSE v \in { IF est_max THEN Maximum(vals) ELSE Minimum(vals) :
                        vals \in {{ ValeurSansElagage(Apres(g, mv), joueur,
                                                      profondeur + 1, ~est_max) :
                                    mv \in ElementsDe(obtenir_coups_valides(g)) }} } :
             TRUE
\* The values of the legal moves of g as root moves of joueur, in their order.
ValeursDesCoups(g, joueur) ==
    [k \in DOMAIN obtenir_coups_valides(g) |->
        ValeurSansElagage(Apres(g, obtenir_coups_valides(g)[k]), joueur, 1, FALSE)]

\* C24: a call of IADifficile.get_move on a board with legal moves returns
\* the earliest legal move whose depth-4 minimax value without pruning
\* (evaluer_difficile for the strategy's symbol at finished boards and at
\* depth 4) is the greatest, and leaves that value in score_dernier_coup:
\* the alpha-beta cuts and the alpha carried from one root move to the next
\* never change the move returned.
C24_ElagageSansEffet ==
    [][ (AppelDeGetMove /\ ia.objet.classe = "IADifficile"
                        /\ CoupsDuPlateau # << >>) =>
          \E valeurs \in {ValeursDesCoups(MorpionUltime_valeur(tas, B),
                                          ia.objet.joueur)} :
              /\ ia'.coup = CoupsDuPlateau[PremierMaximum(valeurs)]
              /\ ia'.objet.score_dernier_coup =
                     valeurs[PremierMaximum(valeurs)] ]_vars

\* An IADifficile returned a move on a board in progress where a later
\* legal move has the same value as the move returned and another legal
\* move has a smaller value.
C24_Temoin ==
    /\ pc = "rendu"
    /\ ia.objet.classe = "IADifficile"
    /\ ia.coup # AucunCoup
    /\ ~MorpionUltime_valeur(tas, B).jeu_termine
    /\ \E valeurs \in {ValeursDesCoups(MorpionUltime_valeur(tas, B),
                                       ia.objet.joueur)} :
          \E j, k, n \in DOMAIN valeurs :
              /\ j < k
              /\ CoupsDuPlateau[j] = ia.coup
              /\ valeurs[k] = valeurs[j]
              /\ valeurs[n] < valeurs[j]

\* ------------------------------------------------ a game of the tournament
\* The games a tournament game is followed from: the empty board, and games
\* near their end, from which every draw of a strategy can be followed.
parties_tournoi ==
    << << >>, partie_antic_xo, partie_triple_draw_mid, partie_exhaust,
       partie_win_ninth, partie_gain_refuse >>

\* The rest of a turn of the loop once get_move has returned coup (or raised
\* exception) with memory t, nb successful moves having been played: the
\* break on None, or jeu.jouer_coup(*coup); the memory after, the value
\* jouer_coup returned, the successful moves played and where the loop is.
jouer_le_coup_rendu(t, coup, exception, nb) ==
    IF exception # "aucune"
    THEN [ tas |-> t, retour |-> FALSE, nb |-> nb, pc |-> "exception" ]
    ELSE IF coup = AucunCoup
    THEN [ tas |-> t, retour |-> FALSE, nb |-> nb, pc |-> "fin" ]
    ELSE Soit(MorpionUltime_jouer_coup_en_place(
                  t, B, coup[1], coup[2], coup[3], coup[4]), LAMBDA j :
             [ tas |-> j.tas, retour |-> j.ret,
               nb |-> IF j.ret THEN nb + 1 ELSE nb, pc |-> "boucle" ])

\* jeu = MorpionUltime() and joueurs = {'X': ..., 'O': ...}, here with the
\* moves of a game already played.  From the empty board two IAFacile play.
InitTournoi ==
    /\ \E n \in DOMAIN parties_tournoi, cx \in Classes, co \in Classes :
          /\ parties_tournoi[n] = << >> => (cx = "IAFacile" /\ co = "IAFacile")
          /\ tas = MorpionUltime_en_memoire(
                       rejouer(MorpionUltime_reinitialiser, parties_tournoi[n], 1))
          /\ ia = [joueurs |-> [s \in Joueurs |-> IF s = "X" THEN cx ELSE co]]
          /\ nb_coups = Len(parties_tournoi[n])
    /\ pc = "boucle"
    /\ appel = << >>
    /\ retour = FALSE
    /\ jeu = HorsService
    /\ mesure = HorsService

\* One turn of the loop, the player to move being an IAFacile.
TourIAFacile ==
    /\ pc = "boucle"
    /\ ~tas.jeux[B].jeu_termine
    /\ ia.joueurs[tas.jeux[B].joueur_courant] = "IAFacile"
    /\ \E r \in {IAFacile_get_move(IAFacile(tas.jeux[B].joueur_courant), tas, B)} :
         \E f \in {jouer_le_coup_rendu(r.tas, r.coup, r.exception, nb_coups)} :
            /\ tas' = f.tas
            /\ retour' = f.retour
            /\ nb_coups' = f.nb
            /\ pc' = f.pc
            /\ appel' = r.coup
    /\ UNCHANGED <<jeu, ia, mesure>>

\* One turn of the loop, the player to move being an IAMoyenne:
\* random.random() falls under taux_erreur_strategique or not, and
\* random.choice draws an index.
TourIAMoyenne ==
    /\ pc = "boucle"
    /\ ~tas.jeux[B].jeu_termine
    /\ ia.joueurs[tas.jeux[B].joueur_courant] = "IAMoyenne"
    /\ \/ \E n \in tirages(obtenir_coups_valides(MorpionUltime_valeur(tas, B))) :
            \E r \in {IAMoyenne_get_move_erreur(
                          IAMoyenne(tas.jeux[B].joueur_courant), tas, B, n)} :
              \E f \in {jouer_le_coup_rendu(r.tas, r.coup, r.exception,
                                            nb_coups)} :
                 /\ tas' = f.tas
                 /\ retour' = f.retour
                 /\ nb_coups' = f.nb
                 /\ pc' = f.pc
                 /\ appel' = r.coup
       \/ \E r \in {IAMoyenne_get_move_recherche(
                        IAMoyenne(tas.jeux[B].joueur_courant), tas, B)} :
            \E n \in tirages(r.meilleurs) :
              \E c \in {random_choice(r.meilleurs, n)} :
                \E f \in {jouer_le_coup_rendu(r.tas, c.ret, c.exception,
                                              nb_coups)} :
                   /\ tas' = f.tas
                   /\ retour' = f.retour
                   /\ nb_coups' = f.nb
                   /\ pc' = f.pc
                   /\ appel' = c.ret
    /\ UNCHANGED <<jeu, ia, mesure>>

\* One turn of the loop, the player to move being an IADifficile.
TourIADifficile ==
    /\ pc = "boucle"
    /\ ~tas.jeux[B].jeu_termine
    /\ ia.joueurs[tas.jeux[B].joueur_courant] = "IADifficile"
    /\ \E r \in {IADifficile_get_move(
                     IADifficile(tas.jeux[B].joueur_courant), tas, B)} :
         \E f \in {jouer_le_coup_rendu(r.tas, r.coup, r.exception, nb_coups)} :
            /\ tas' = f.tas
            /\ retour' = f.retour
            /\ nb_coups' = f.nb
            /\ pc' = f.pc
            /\ appel' = r.coup
    /\ UNCHANGED <<jeu, ia, mesure>>

\* while not jeu.jeu_termine: the loop is left and the winner is read.
FinDePartie ==
    /\ pc = "boucle"
    /\ tas.jeux[B].jeu_termine
    /\ pc' = "fin"
    /\ UNCHANGED <<jeu, appel, retour, nb_coups, tas, ia, mesure>>

NextTournoi ==
    \/ TourIAFacile
    \/ TourIAMoyenne
    \/ TourIADifficile
    \/ FinDePartie

\* The loop is sequential code: it takes its next step as long as it has one.
SpecTournoi == InitTournoi /\ [][NextTournoi]_vars /\ WF_vars(NextTournoi)

\* --------------------------------------------------------------------- C26
\* The number of cells of the 81 that are not empty.
NbOccupees(g) ==
    Cardinality({m \in Coups : Case(g, m[1], m[2], m[3], m[4]) # " "})
\* The cells whose content differs between boards g and h.
CasesChangees(g, h) ==
    {m \in Coups : Case(g, m[1], m[2], m[3], m[4]) # Case(h, m[1], m[2], m[3], m[4])}

\* C26: every game terminates: the loop of a game reaches its end with the
\* game over; the successful calls of jouer_coup since the empty board are
\* as many as the occupied cells, hence at most 81; and each successful call
\* fills exactly one cell that was empty and changes no other cell.
C26_Terminaison ==
    /\ [](/\ nb_coups = NbOccupees(MorpionUltime_valeur(tas, B))
          /\ nb_coups <= 81)
    /\ [][ \E g \in {MorpionUltime_valeur(tas, B)} :
             \E h \in {MorpionUltime_valeur(tas', B)} :
               /\ nb_coups' \in {nb_coups, nb_coups + 1}
               /\ nb_coups' = nb_coups => h = g
               /\ nb_coups' = nb_coups + 1 =>
                     /\ retour'
                     /\ CasesChangees(g, h) = {appel'}
                     /\ Case(g, appel'[1], appel'[2], appel'[3], appel'[4]) = " "
                     /\ Case(h, appel'[1], appel'[2], appel'[3], appel'[4])
                            = g.joueur_courant ]_vars
    /\ <>(pc = "fin" /\ tas.jeux[B].jeu_termine)

\* C26 witness: a game that began on the empty board has reached its end,
\* after as many successful moves as cells are occupied, the last one
\* returned by a strategy and played with success.
C26_Temoin ==
    /\ pc = "fin"
    /\ tas.jeux[B].jeu_termine
    /\ retour
    /\ ia.joueurs = [s \in Joueurs |-> "IAFacile"]
    /\ nb_coups = NbOccupees(MorpionUltime_valeur(tas, B))
    /\ nb_coups >= 17

====
